---- MODULE Spec2Model ----
(***************************************************************************)
(* Fall detection pipeline (src/fall_detection): the clip assembler        *)
(* (clip_saver.py), the pose-metric fall classifier (fall_detector.py),    *)
(* the remote frame source (mqtt_video_receiver.py) and the orchestration  *)
(* loop of the EC2 edition (run_camera_ec2.py).                            *)
(*                                                                         *)
(* Every object of the program is one variable holding a record of the     *)
(* object's fields; every method is an operator from the object (and the   *)
(* call's arguments) to the object after the call.  Wall-clock time is     *)
(* counted in whole seconds.  A frame is identified by a natural number.   *)
(***************************************************************************)
EXTENDS Integers, Sequences, FiniteSets, TLC

VARIABLES
    config,     \* the values of config.py read by the components
    now,        \* the last value read from time.time(), in seconds
    clip,       \* the ClipSaver object (and the clip files it has written)
    clip_call,  \* the last ClipSaver call: its name, its return value, and
                \* whether it wrote a clip file
    det,        \* the FallDetector object
    det_call,   \* the last FallDetector call: its name, its return value, and
                \* what an observer of the calls knows (see NoDetCall)
    receiver,   \* the MQTTVideoReceiver object behind the RemoteCamera
    aws,        \* which AWS sinks are available and enabled
    loop,       \* detect_and_publish: its locals, the module globals it writes
                \* (output_frame, fall_events, system_status), its publisher
    pc,         \* where detect_and_publish is: in its loop, or in its finally
    camera,     \* a LocalCamera object
    iot,        \* an AWSIoTPublisher object, its client and the connection
    threads,    \* the threads of run_camera_ec2.py: where each one is, who
                \* holds each lock, and the step taken last
    pi,         \* the camera program of the Raspberry Pi: its publisher
    sinks,      \* the delivery sinks on their own, and the last call on one
    query,      \* the last answer of get_events
    process     \* the main thread of run_camera_ec2.py: in main(), sleeping
                \* while the detection thread starts, serving the dashboard,
                \* or exited

clipVars == <<clip, clip_call>>

detVars == <<det, det_call>>

loopVars == <<receiver, aws, loop, pc>>

sideVars == <<camera, iot, threads, pi, sinks, query, process>>

vars ==
    <<config, now, clip, clip_call, det, det_call, receiver, aws, loop, pc,
      camera, iot, threads, pi, sinks, query, process>>

\* ------------------------------------------------------------------ bounds

\* Largest value of a frames-per-second setting or argument.
MaxFps == 2
\* Largest value of a pre-roll / post-roll seconds setting or argument.
MaxSeconds == 2
\* Number of frames handed to the clip assembler in one behaviour.
MaxFrames == 7
\* Number of clip files written in one behaviour.
MaxClips == 2
\* The clock runs from StartTime to MaxTime.
StartTime == 10
MaxTime == 11
\* Number of predict and reset calls made on a detector in one behaviour.
MaxCalls == 3
\* The clock of a detector runs from StartTime to StartTime + DetectorSpan.
DetectorSpan == 6
\* Decimal places kept of the standing ratio beyond the first: a frame whose
\* smoothing step needs more is not drawn.
RatioDigits == 2
\* The clock of a frame source on its own runs from StartTime to StartTime +
\* SourceSpan.
SourceSpan == 6
\* Number of loop iterations of detect_and_publish in one behaviour.
MaxIterations == 2

\* The number of fall events handed to the AWS IoT publisher at most.
MaxPublishes == 3

\* The number of delivery calls made on the sinks on their own at most.
MaxSinkCalls == 3
\* The clock of the loop runs from StartTime to StartTime + LoopSpan.
LoopSpan == 6

\* ------------------------------------------------------------------ helpers

\* Python's None, and the falsy argument value that "x or DEFAULT" replaces.
None == <<>>

Min(a, b) == IF a < b THEN a ELSE b

\* The last k elements of s (all of s when it is shorter): list(s)[-k:], k > 0.
LastK(s, k) == IF Len(s) <= k THEN s ELSE SubSeq(s, Len(s) - k + 1, Len(s))

\* collections.deque(maxlen=n).append(x): the oldest element is dropped when
\* the deque is full; with maxlen 0 nothing is kept.
DequeAppend(d, x, maxlen) == LastK(Append(d, x), maxlen)

\* The frames first .. last, in order.
FrameRun(first, last) == [i \in 1..(last - first + 1) |-> first + i - 1]

\* ------------------------------------------------------------------ config.py

\* The configurations explored: frame rate and pre/post-roll seconds are
\* positive integers, as in config.py (30, 3 and 2 there); the confidence
\* threshold (in tenths) and the cooldown (in seconds) are those of config.py.
FALL_CONFIDENCE_THRESHOLD == 7
FALL_COOLDOWN_SECONDS == 5

\* The configuration a component built on its own takes its defaults from.
DefaultConfig ==
    [CAMERA_FPS |-> MaxFps,
     CLIP_BUFFER_SECONDS |-> MaxSeconds,
     CLIP_POST_SECONDS |-> MaxSeconds,
     FALL_CONFIDENCE_THRESHOLD |-> FALL_CONFIDENCE_THRESHOLD,
     FALL_COOLDOWN_SECONDS |-> FALL_COOLDOWN_SECONDS]

\* ------------------------------------------------------------------ ClipSaver

\* "arg or DEFAULT": 0 stands for an omitted (None) or zero argument.
OrDefault(arg, default) == IF arg = 0 THEN default ELSE arg

\* ClipSaver.__init__(output_dir, buffer_seconds, post_seconds, fps).
\* files is the clip directory: the clips written so far, oldest first.
\* ingested counts the frames passed to add_frame, and snapshot is the rolling
\* buffer as the last accepted trigger found it; the code keeps neither.
ClipSaverInit(cfg, buffer_seconds, post_seconds, fps) ==
    LET bs == OrDefault(buffer_seconds, cfg.CLIP_BUFFER_SECONDS)
        ps == OrDefault(post_seconds, cfg.CLIP_POST_SECONDS)
        f  == OrDefault(fps, cfg.CAMERA_FPS)
    IN  [buffer_seconds |-> bs,
         post_seconds |-> ps,
         fps |-> f,
         maxlen |-> f * bs,
         frame_buffer |-> <<>>,
         is_recording |-> FALSE,
         recording_frames |-> <<>>,
         post_frames_count |-> 0,
         post_frames_needed |-> f * ps,
         current_clip_path |-> None,
         files |-> <<>>,
         ingested |-> 0,
         snapshot |-> <<>>]

\* FinalizeClip leaving the post-trigger counter as it stands.
FinalizeClipKeepsCount(cs) ==
    IF cs.recording_frames = <<>>
    THEN [cs EXCEPT !.is_recording = FALSE]
    ELSE [cs EXCEPT
            !.files = Append(@, [path |-> cs.current_clip_path,
                                 frames |-> cs.recording_frames]),
            !.is_recording = FALSE,
            !.recording_frames = <<>>]

\* ClipSaver._finalize_clip(): write recording_frames to current_clip_path and
\* reset the recording state; with nothing recorded only is_recording is reset.
FinalizeClip(cs) ==
    IF cs.recording_frames = <<>>
    THEN [cs EXCEPT !.is_recording = FALSE]
    ELSE [cs EXCEPT
            !.files = Append(@, [path |-> cs.current_clip_path,
                                 frames |-> cs.recording_frames]),
            !.is_recording = FALSE,
            !.recording_frames = <<>>,
            !.post_frames_count = 0]

\* AddFrameRecording with the finalize test off by one (> for >=).
AddFrameRecordingLate(cs, frame) ==
    LET rec == [cs EXCEPT
                  !.recording_frames = Append(@, frame),
                  !.post_frames_count = @ + 1]
    IN  IF rec.post_frames_count > rec.post_frames_needed
        THEN FinalizeClip(rec)
        ELSE rec

\* The recording branch of add_frame: the frame joins the recording, the
\* post-trigger counter advances, and the clip is finalized once the counter
\* has reached post_frames_needed.
AddFrameRecording(cs, frame) ==
    LET rec == [cs EXCEPT
                  !.recording_frames = Append(@, frame),
                  !.post_frames_count = @ + 1]
    IN  IF rec.post_frames_count >= rec.post_frames_needed
        THEN FinalizeClip(rec)
        ELSE rec

\* The non-recording branch of add_frame: the frame joins the rolling buffer.
AddFrameBuffer(cs, frame) ==
    [cs EXCEPT !.frame_buffer = DequeAppend(@, frame, cs.maxlen)]

\* ClipSaver.add_frame(frame).
AddFrame(cs, frame) ==
    LET c == [cs EXCEPT !.ingested = @ + 1]
    IN  IF c.is_recording
        THEN AddFrameRecording(c, frame)
        ELSE AddFrameBuffer(c, frame)

\* The clip path trigger_save builds from the wall clock:
\* fall_<local date and time>_<int(time.time())>.mp4 in output_dir.
ClipPath(t) == <<"fall", t>>

\* TriggerSave starting the recording empty instead of from the rolling buffer.
TriggerSaveNoPreRoll(cs, t) ==
    IF cs.is_recording
    THEN cs
    ELSE [cs EXCEPT
            !.is_recording = TRUE,
            !.post_frames_count = 0,
            !.recording_frames = <<>>,
            !.snapshot = cs.frame_buffer,
            !.current_clip_path = ClipPath(t)]

\* TriggerSave without the already-recording test: a trigger restarts the
\* recording in progress.
TriggerSaveRestart(cs, t) ==
    [cs EXCEPT
       !.is_recording = TRUE,
       !.post_frames_count = 0,
       !.recording_frames = cs.frame_buffer,
       !.snapshot = cs.frame_buffer,
       !.current_clip_path = ClipPath(t)]

\* ClipSaver.trigger_save() at time t: the object after the call.
TriggerSave(cs, t) ==
    IF cs.is_recording
    THEN cs
    ELSE [cs EXCEPT
            !.is_recording = TRUE,
            !.post_frames_count = 0,
            !.recording_frames = cs.frame_buffer,
            !.snapshot = cs.frame_buffer,
            !.current_clip_path = ClipPath(t)]

\* ClipSaver.trigger_save() at time t: the value returned.
TriggerSaveReturn(cs, t) ==
    IF cs.is_recording THEN None ELSE ClipPath(t)

\* ForceSave dropping the partial recording instead of writing it.
ForceSaveDiscard(cs) ==
    IF cs.is_recording /\ cs.recording_frames # <<>>
    THEN [cs EXCEPT
            !.is_recording = FALSE,
            !.recording_frames = <<>>,
            !.post_frames_count = 0]
    ELSE cs

\* ClipSaver.force_save().
ForceSave(cs) ==
    IF cs.is_recording /\ cs.recording_frames # <<>>
    THEN FinalizeClip(cs)
    ELSE cs

\* _finalize_clip() with the outcome of its writing: the file is written;
\* the cv2.VideoWriter cannot write and says so only through isOpened(),
\* which _finalize_clip does not test; or an exception is raised while
\* writing.  Gives the object after the call, and whether an exception leaves
\* the call.
FinalizeClipWriting(cs, outcome) ==
    IF cs.recording_frames = <<>>
    THEN [clip |-> [cs EXCEPT !.is_recording = FALSE], raised |-> FALSE]
    ELSE IF outcome = "written"
    THEN [clip |-> FinalizeClip(cs), raised |-> FALSE]
    ELSE IF outcome = "unwritten"
    THEN [clip |-> [cs EXCEPT
                      !.is_recording = FALSE,
                      !.recording_frames = <<>>,
                      !.post_frames_count = 0],
          raised |-> FALSE]
    ELSE [clip |-> cs, raised |-> TRUE]

\* add_frame(frame) with the outcome of the writing it may do.
AddFrameWriting(cs, frame, outcome) ==
    LET c == [cs EXCEPT !.ingested = @ + 1]
        rec == [c EXCEPT
                  !.recording_frames = Append(@, frame),
                  !.post_frames_count = @ + 1]
    IN  IF c.is_recording
        THEN IF rec.post_frames_count >= rec.post_frames_needed
             THEN FinalizeClipWriting(rec, outcome)
             ELSE [clip |-> rec, raised |-> FALSE]
        ELSE [clip |-> AddFrameBuffer(c, frame), raised |-> FALSE]

\* ------------------------------------------------------------------ FallDetector
\* Positions (center_y, head_y), aspect ratios and visibilities are in tenths,
\* angles in degrees, confidences in tenths, times in seconds; the standing
\* ratio is in units of 1 / (10 * RatioScale).

RatioScale == 10 ^ RatioDigits

\* self.standing_height_ratio = None (a ratio that is set is above 1.2).
NoRatio == 0

\* FallDetector.__init__: the fixed settings.
fall_cooldown == 5
calibration_needed == 30
position_history_maxlen == 30

\* if metrics['aspect_ratio'] > 1.2
UprightRatio == 12
\* if ratio_change < 0.5, as 1 / RatioCollapseDivisor
RatioCollapseDivisor == 2
\* if current_metrics['aspect_ratio'] < 0.8
HorizontalRatio == 8
\* if current_metrics['body_angle'] < 45
HorizontalAngle == 45
\* if len(self.position_history) >= 5: recent = list(...)[-5:]
VelocityWindow == 5
\* if velocity > 0.5, in tenths of the frame height per second
VelocityThreshold == 5
\* if current_metrics['head_y'] > 0.6
LowHead == 6
\* if metrics and metrics['visibility'] > 0.5
MinVisibility == 5
\* the indicator weights 0.4, 0.3, 0.3, 0.4, 0.2 and the cap min(sum, 1.0)
WeightRatioCollapse == 4
WeightHorizontal == 3
WeightAngle == 3
WeightVelocity == 4
WeightLowHead == 2
ConfidenceCap == 10

\* What pose estimation and _calculate_body_metrics make of a frame: whether
\* pose landmarks were found and, if so, the body metrics predict reads.
\* The frames drawn.  5 tenths is the visibility that is not above the
\* threshold.
Person(visibility, aspect_ratio, body_angle, center_y, head_y) ==
    [landmarks |-> TRUE, visibility |-> visibility,
     aspect_ratio |-> aspect_ratio, body_angle |-> body_angle,
     center_y |-> center_y, head_y |-> head_y]

\* No pose landmarks found.
NoPerson ==
    [landmarks |-> FALSE, visibility |-> 0, aspect_ratio |-> 0, body_angle |-> 0,
     center_y |-> 0, head_y |-> 0]

Frames ==
    {NoPerson,
     Person(3, 5, 10, 9, 8),    \* lying, poorly visible
     Person(5, 5, 10, 9, 8),    \* lying, visibility at the threshold
     Person(9, 20, 90, 3, 2),   \* standing
     Person(9, 15, 90, 3, 2),   \* standing, arms out
     Person(9, 9, 90, 3, 2),    \* crouching
     Person(9, 9, 10, 3, 2),    \* bent over
     Person(9, 20, 90, 9, 8),   \* upright, low in the frame
     Person(9, 5, 90, 3, 8),    \* horizontal, head low
     Person(9, 5, 10, 9, 8)}    \* lying low in the frame

\* if results.pose_landmarks: ... if metrics and metrics['visibility'] > 0.5
Qualifies(frame) == frame.landmarks /\ frame.visibility > MinVisibility

\* FallDetector.__init__(confidence_threshold).  position_history holds the
\* last VelocityWindow entries of the deque, the only ones the code reads, and
\* history_len is the deque's length.
FallDetectorInit(confidence_threshold) ==
    [confidence_threshold |-> confidence_threshold,
     position_history |-> <<>>,
     history_len |-> 0,
     last_fall_time |-> 0,
     standing_height_ratio |-> NoRatio,
     calibration_frames |-> 0]

\* A history that holds one entry less than the velocity needs.
HistoryAppendShort(d, frame, t) ==
    [d EXCEPT
       !.position_history =
           DequeAppend(@, [time |-> t, center_y |-> frame.center_y],
                       VelocityWindow - 1),
       !.history_len = Min(@ + 1, VelocityWindow - 1)]

\* self.position_history.append({'time': time.time(), 'metrics': metrics})
HistoryAppend(d, frame, t) ==
    [d EXCEPT
       !.position_history =
           DequeAppend(@, [time |-> t, center_y |-> frame.center_y],
                       VelocityWindow),
       !.history_len = Min(@ + 1, position_history_maxlen)]

\* The exponential smoothing 0.9 * old + 0.1 * new of the standing ratio.
Smooth(old, aspect_ratio) == (9 * old + aspect_ratio * RatioScale) \div 10

\* Whether Smooth(old, aspect_ratio) is exact at RatioScale.
SmoothExact(old, aspect_ratio) == (9 * old + aspect_ratio * RatioScale) % 10 = 0

\* Calibrate counting the upright frames only.
CalibrateUprightOnly(d, frame) ==
    IF frame.aspect_ratio > UprightRatio
    THEN [d EXCEPT
            !.standing_height_ratio =
                IF @ = NoRatio
                THEN frame.aspect_ratio * RatioScale
                ELSE Smooth(@, frame.aspect_ratio),
            !.calibration_frames = @ + 1]
    ELSE d

\* Calibrate smoothing the standing ratio with every frame.
CalibrateAnyFrame(d, frame) ==
    [d EXCEPT
       !.standing_height_ratio =
           IF @ = NoRatio
           THEN frame.aspect_ratio * RatioScale
           ELSE Smooth(@, frame.aspect_ratio),
       !.calibration_frames = @ + 1]

\* The calibration phase of predict.
Calibrate(d, frame) ==
    [d EXCEPT
       !.standing_height_ratio =
           IF frame.aspect_ratio > UprightRatio
           THEN IF @ = NoRatio
                THEN frame.aspect_ratio * RatioScale
                ELSE Smooth(@, frame.aspect_ratio)
           ELSE @,
       !.calibration_frames = @ + 1]

\* The velocity indicator of _detect_fall over the last five history entries.
RapidDrop(d) ==
    /\ d.history_len >= VelocityWindow
    /\ LET recent == d.position_history
           time_span == recent[Len(recent)].time - recent[1].time
       IN  /\ time_span > 0
           /\ recent[Len(recent)].center_y - recent[1].center_y
                > VelocityThreshold * time_span

\* fall_indicators stopping at the first indicator that applies.
IndicatorSumFirstMatch(d, m) ==
    IF /\ d.standing_height_ratio # NoRatio
       /\ RatioCollapseDivisor * m.aspect_ratio * RatioScale
            < d.standing_height_ratio
    THEN WeightRatioCollapse
    ELSE IF m.aspect_ratio < HorizontalRatio THEN WeightHorizontal
    ELSE IF m.body_angle < HorizontalAngle THEN WeightAngle
    ELSE IF RapidDrop(d) THEN WeightVelocity
    ELSE IF m.head_y > LowHead THEN WeightLowHead
    ELSE 0

\* fall_indicators with the position test on center_y instead of head_y.
IndicatorSumLowCenter(d, m) ==
      (IF /\ d.standing_height_ratio # NoRatio
          /\ RatioCollapseDivisor * m.aspect_ratio * RatioScale
               < d.standing_height_ratio
       THEN WeightRatioCollapse ELSE 0)
    + (IF m.aspect_ratio < HorizontalRatio THEN WeightHorizontal ELSE 0)
    + (IF m.body_angle < HorizontalAngle THEN WeightAngle ELSE 0)
    + (IF RapidDrop(d) THEN WeightVelocity ELSE 0)
    + (IF m.center_y > LowHead THEN WeightLowHead ELSE 0)

\* fall_indicators of _detect_fall, summed.
IndicatorSum(d, m) ==
      (IF /\ d.standing_height_ratio # NoRatio
          /\ RatioCollapseDivisor * m.aspect_ratio * RatioScale
               < d.standing_height_ratio
       THEN WeightRatioCollapse ELSE 0)
    + (IF m.aspect_ratio < HorizontalRatio THEN WeightHorizontal ELSE 0)
    + (IF m.body_angle < HorizontalAngle THEN WeightAngle ELSE 0)
    + (IF RapidDrop(d) THEN WeightVelocity ELSE 0)
    + (IF m.head_y > LowHead THEN WeightLowHead ELSE 0)

\* FallDetector._detect_fall(current_metrics): (is_fall, confidence).
DetectFall(d, m) ==
    LET confidence == Min(IndicatorSum(d, m), ConfidenceCap)
    IN  IF IndicatorSum(d, m) > 0
        THEN [is_fall |-> confidence >= d.confidence_threshold,
              confidence |-> confidence]
        ELSE [is_fall |-> FALSE, confidence |-> 0]

\* Cooldown never suppressing: every positive is accepted.
CooldownOff(d, r, t) ==
    IF r.is_fall
    THEN [det |-> [d EXCEPT !.last_fall_time = t],
          is_fall |-> TRUE, confidence |-> r.confidence]
    ELSE [det |-> d, is_fall |-> FALSE, confidence |-> r.confidence]

\* Cooldown starting again at every positive it suppresses.
CooldownExtending(d, r, t) ==
    IF r.is_fall /\ (t - d.last_fall_time) < fall_cooldown
    THEN [det |-> [d EXCEPT !.last_fall_time = t],
          is_fall |-> FALSE, confidence |-> 0]
    ELSE IF r.is_fall
         THEN [det |-> [d EXCEPT !.last_fall_time = t],
               is_fall |-> TRUE, confidence |-> r.confidence]
         ELSE [det |-> d, is_fall |-> FALSE, confidence |-> r.confidence]

\* The cooldown of predict applied to _detect_fall's result r at time t.
Cooldown(d, r, t) ==
    IF r.is_fall /\ (t - d.last_fall_time) < fall_cooldown
    THEN [det |-> d, is_fall |-> FALSE, confidence |-> 0]
    ELSE IF r.is_fall
         THEN [det |-> [d EXCEPT !.last_fall_time = t],
               is_fall |-> TRUE, confidence |-> r.confidence]
         ELSE [det |-> d, is_fall |-> FALSE, confidence |-> r.confidence]

\* Predict appending to the history before it tests the frame's visibility.
PredictAppendFirst(d, frame, t1, t2) ==
    IF frame.landmarks
    THEN LET h == HistoryAppend(d, frame, t1)
         IN  IF ~(frame.visibility > MinVisibility)
             THEN [det |-> h, is_fall |-> FALSE, confidence |-> 0]
             ELSE IF h.calibration_frames < calibration_needed
                  THEN [det |-> Calibrate(h, frame), is_fall |-> FALSE,
                        confidence |-> 0]
                  ELSE Cooldown(h, DetectFall(h, frame), t2)
    ELSE [det |-> d, is_fall |-> FALSE, confidence |-> 0]

\* Predict going on with the smoothing of the standing ratio after the
\* calibration frames.
PredictKeepsCalibrating(d, frame, t1, t2) ==
    IF Qualifies(frame)
    THEN LET h == HistoryAppend(d, frame, t1)
         IN  IF h.calibration_frames < calibration_needed
             THEN [det |-> Calibrate(h, frame), is_fall |-> FALSE, confidence |-> 0]
             ELSE LET c == [Calibrate(h, frame) EXCEPT
                              !.calibration_frames = h.calibration_frames]
                  IN  Cooldown(c, DetectFall(c, frame), t2)
    ELSE [det |-> d, is_fall |-> FALSE, confidence |-> 0]

\* Predict running the detection on its calibration frames too.
PredictDetectsCalibrating(d, frame, t1, t2) ==
    IF Qualifies(frame)
    THEN LET h == HistoryAppend(d, frame, t1)
         IN  IF h.calibration_frames < calibration_needed
             THEN Cooldown(Calibrate(h, frame),
                           DetectFall(Calibrate(h, frame), frame), t2)
             ELSE Cooldown(h, DetectFall(h, frame), t2)
    ELSE [det |-> d, is_fall |-> FALSE, confidence |-> 0]

\* FallDetector.predict(frame): the detector after the call and the
\* (is_fall, confidence) returned.  t1 is the time read for the history entry
\* and t2 the time read for the cooldown.
Predict(d, frame, t1, t2) ==
    IF Qualifies(frame)
    THEN LET h == HistoryAppend(d, frame, t1)
         IN  IF h.calibration_frames < calibration_needed
             THEN [det |-> Calibrate(h, frame), is_fall |-> FALSE, confidence |-> 0]
             ELSE Cooldown(h, DetectFall(h, frame), t2)
    ELSE [det |-> d, is_fall |-> FALSE, confidence |-> 0]

\* Reset clearing the history and leaving the calibration as it is.
ResetKeepsCalibration(d) ==
    [d EXCEPT !.position_history = <<>>, !.history_len = 0]

\* Reset clearing the cooldown timer as well.
ResetClearsTimer(d) ==
    [d EXCEPT
       !.position_history = <<>>,
       !.history_len = 0,
       !.calibration_frames = 0,
       !.standing_height_ratio = NoRatio,
       !.last_fall_time = 0]

\* FallDetector.reset().
Reset(d) ==
    [d EXCEPT
       !.position_history = <<>>,
       !.history_len = 0,
       !.calibration_frames = 0,
       !.standing_height_ratio = NoRatio]

\* The detector after n more predict calls on the same frame at time t.
RECURSIVE PredictTimes(_, _, _, _)
PredictTimes(d, frame, t, n) ==
    IF n = 0 \/ d.calibration_frames < 0
    THEN d
    ELSE PredictTimes(Predict(d, frame, t, t).det, frame, t, n - 1)

\* det_call before any call on the detector.  n counts the calls; is_fall and
\* confidence are the values returned; qualified tells whether the frame had
\* landmarks visible enough; raw_fall whether _detect_fall called it a fall,
\* before the cooldown; accepted_at is the time of the last call that
\* returned is_fall = True (0: none yet); frame is the frame of the call and
\* raw_confidence the confidence _detect_fall gave it (0 when it was not run).
NoDetCall ==
    [op |-> "init", n |-> 0, is_fall |-> FALSE, confidence |-> 0,
     qualified |-> FALSE, raw_fall |-> FALSE, accepted_at |-> 0,
     frame |-> NoPerson, raw_confidence |-> 0]

\* Whether _detect_fall, run on this frame, calls it a fall (False when it is
\* not run: a frame that does not qualify, or a calibration frame).
RawFall(d, frame, t1) ==
    /\ Qualifies(frame)
    /\ d.calibration_frames >= calibration_needed
    /\ DetectFall(HistoryAppend(d, frame, t1), frame).is_fall

\* The confidence _detect_fall, run on this frame, returns (0 when it is not
\* run).
RawConfidence(d, frame, t1) ==
    IF Qualifies(frame) /\ d.calibration_frames >= calibration_needed
    THEN DetectFall(HistoryAppend(d, frame, t1), frame).confidence
    ELSE 0

\* det_call after predict(frame) on detector d returned r.
PredictCall(call, d, frame, t1, t2, r) ==
    [op |-> "predict", n |-> call.n + 1,
     is_fall |-> r.is_fall, confidence |-> r.confidence,
     qualified |-> Qualifies(frame),
     raw_fall |-> RawFall(d, frame, t1),
     accepted_at |-> IF r.is_fall THEN t2 ELSE call.accepted_at,
     frame |-> frame,
     raw_confidence |-> RawConfidence(d, frame, t1)]

\* ------------------------------------------------------------------ MQTTVideoReceiver

\* self.last_frame_time = None
NoTime == 0

\* is_receiving: no frame in 5 seconds = not receiving
ReceiveWindow == 5

\* MQTTVideoReceiver.__init__ and connect(): subscribed, no frame yet.
ReceiverInit ==
    [connected |-> TRUE, current_frame |-> None, last_frame_time |-> NoTime]

\* on_message for a payload that decodes to a frame, at time t: the frame
\* replaces the current one.
OnMessage(rv, frame, t) ==
    [rv EXCEPT !.current_frame = <<frame>>, !.last_frame_time = t]

\* MQTTVideoReceiver.get_frame(): a copy of the current frame, or None.
GetFrame(rv) == rv.current_frame

\* MQTTVideoReceiver.is_receiving() at time t.
IsReceiving(rv, t) ==
    IF rv.last_frame_time = NoTime
    THEN FALSE
    ELSE (t - rv.last_frame_time) < ReceiveWindow

\* MQTTVideoReceiver.disconnect().
ReceiverDisconnect(rv) == [rv EXCEPT !.connected = FALSE]

\* ------------------------------------------------------------------ LocalCamera

\* LocalCamera.__init__: self.cap = None.  cap is "None", or what the
\* VideoCapture is: "opened", "failed" (it did not open) or "released".
\* last_frame_time is the time read() last returned a frame (NoTime: never).
LocalCameraInit == [cap |-> "None", last_frame_time |-> NoTime]

\* LocalCamera.get_frame() at time t, read() returning a frame or not: the
\* camera afterwards.  A capture that is not open returns no frame.
LocalGetFrame(c, ret, t) ==
    IF c.cap = "opened" /\ ret THEN [c EXCEPT !.last_frame_time = t] ELSE c

\* LocalCamera.is_receiving().
LocalIsReceiving(c) == c.cap # "None" /\ c.cap = "opened"

\* ------------------------------------------------------------------ AWSIoTPublisher

\* AWSIoTPublisher.__init__, with the state of the client it will build: the
\* offline publish queue of the client, whether its connection is up, what
\* the endpoint has received, and how many times each message was handed to
\* the connection or to the queue.
IotInit ==
    [client |-> "None", connected |-> FALSE, link |-> "down",
     queueing |-> "none", auto_reconnect |-> FALSE,
     offline_queue |-> <<>>, received |-> <<>>, attempts |-> <<>>,
     ret |-> None]

\* connect(): builds the client, configures auto-reconnect, the unbounded
\* offline publish queue and its draining, and connects.
IotConnect(p, ok) ==
    [p EXCEPT !.client = "AWSIoTMQTTClient",
              !.auto_reconnect = TRUE,
              !.queueing = "infinite",
              !.connected = ok,
              !.link = IF ok THEN "up" ELSE "down",
              !.ret = ok]

\* publish_fall_event(confidence): refused when connect() has not succeeded;
\* otherwise one publish on the client, which sends the message when the
\* connection is up and the queue is drained, and queues it otherwise.
IotPublishFallEvent(p, confidence) ==
    IF ~p.connected THEN [p EXCEPT !.ret = FALSE]
    ELSE LET id == Len(p.attempts) + 1
             message == [id |-> id, confidence |-> confidence]
         IN  IF p.link = "up" /\ p.offline_queue = <<>>
             THEN [p EXCEPT !.received = Append(@, message),
                            !.attempts = Append(@, 1),
                            !.ret = TRUE]
             ELSE [p EXCEPT !.offline_queue = Append(@, message),
                            !.attempts = Append(@, 1),
                            !.ret = TRUE]

\* ------------------------------------------------------------------ threads and locks

\* The threads of run_camera_ec2.py: the detection thread and one thread for
\* each kind of request the Flask application serves.
Threads == {"detect", "stream", "status", "events"}

\* frame_lock, fall_events_lock and the lock of the ClipSaver.
Locks == {"frame_lock", "fall_events_lock", "clip_lock"}

\* The mutex the module declares for a shared object; system_status has none.
MutexOf(obj) ==
    IF obj = "output_frame" THEN "frame_lock"
    ELSE IF obj = "fall_events" THEN "fall_events_lock"
    ELSE "none"

\* One step of a thread: what it does, to what, and where control may go.
\* op is acquire or release (of a lock), read or write (of a shared object),
\* io (blocking input or output: a file, the network, a client, a sleep) or
\* local.
Step(op, obj, next) == [op |-> op, obj |-> obj, next |-> next]

\* detect_and_publish, with the ClipSaver methods it calls: the loop body and
\* the finally block.
DetectProgram ==
    [d_get          |-> Step("local", "camera.get_frame",
                             {"d_none", "d_status", "d_disconnect"}),
     d_none         |-> Step("local", "no_frame_count",
                             {"d_ns_acquire", "d_none_sleep"}),
     d_ns_acquire   |-> Step("acquire", "frame_lock", {"d_ns_write"}),
     d_ns_write     |-> Step("write", "output_frame", {"d_ns_release"}),
     d_ns_release   |-> Step("release", "frame_lock", {"d_ns_status"}),
     d_ns_status    |-> Step("write", "system_status", {"d_none_sleep"}),
     d_none_sleep   |-> Step("io", "sleep", {"d_get"}),
     d_status       |-> Step("write", "system_status", {"d_predict"}),
     d_predict      |-> Step("local", "detector.predict", {"d_add_acquire"}),
     d_add_acquire  |-> Step("acquire", "clip_lock",
                             {"d_add_append", "d_add_finalize"}),
     d_add_append   |-> Step("local", "frame_buffer", {"d_add_release"}),
     d_add_finalize |-> Step("io", "clip_file", {"d_add_release"}),
     d_add_release  |-> Step("release", "clip_lock",
                             {"d_trig_acquire", "d_out_acquire"}),
     d_trig_acquire |-> Step("acquire", "clip_lock", {"d_trig_start"}),
     d_trig_start   |-> Step("local", "is_recording", {"d_trig_release"}),
     d_trig_release |-> Step("release", "clip_lock", {"d_upload"}),
     d_upload       |-> Step("io", "upload_sync", {"d_mqtt_status"}),
     d_mqtt_status  |-> Step("read", "system_status",
                             {"d_publish", "d_ev_acquire"}),
     d_publish      |-> Step("io", "publish_fall_event", {"d_ev_acquire"}),
     d_ev_acquire   |-> Step("acquire", "fall_events_lock", {"d_ev_insert"}),
     d_ev_insert    |-> Step("write", "fall_events", {"d_ev_release"}),
     d_ev_release   |-> Step("release", "fall_events_lock", {"d_last_fall"}),
     d_last_fall    |-> Step("write", "system_status", {"d_tasks"}),
     d_tasks        |-> Step("local", "threading.Thread", {"d_out_acquire"}),
     d_out_acquire  |-> Step("acquire", "frame_lock", {"d_out_write"}),
     d_out_write    |-> Step("write", "output_frame", {"d_out_release"}),
     d_out_release  |-> Step("release", "frame_lock", {"d_sleep"}),
     d_sleep        |-> Step("io", "sleep", {"d_get"}),
     d_disconnect   |-> Step("io", "camera.disconnect", {"d_force_acquire"}),
     d_force_acquire |-> Step("acquire", "clip_lock",
                              {"d_force_finalize", "d_force_release"}),
     d_force_finalize |-> Step("io", "clip_file", {"d_force_release"}),
     d_force_release |-> Step("release", "clip_lock", {"d_off_status"}),
     d_off_status   |-> Step("read", "system_status",
                             {"d_offline", "d_final_status"}),
     d_offline      |-> Step("io", "publish_status", {"d_final_status"}),
     d_final_status |-> Step("write", "system_status", {"d_done"}),
     d_done         |-> Step("local", "return", {})]

\* generate_frames, serving /video_feed.
StreamProgram ==
    [g_acquire      |-> Step("acquire", "frame_lock", {"g_test"}),
     g_test         |-> Step("read", "output_frame",
                             {"g_load_encode", "g_encode"}),
     g_load_encode  |-> Step("local", "cv2.imencode", {"g_load_yield"}),
     g_load_yield   |-> Step("io", "yield", {"g_load_sleep"}),
     g_load_sleep   |-> Step("io", "sleep", {"g_load_release"}),
     g_load_release |-> Step("release", "frame_lock", {"g_acquire"}),
     g_encode       |-> Step("read", "output_frame", {"g_release"}),
     g_release      |-> Step("release", "frame_lock",
                             {"g_yield", "g_acquire"}),
     g_yield        |-> Step("io", "yield", {"g_sleep"}),
     g_sleep        |-> Step("io", "sleep", {"g_acquire"})]

\* get_status, serving /api/status.
StatusProgram ==
    [s_request |-> Step("local", "request", {"s_read"}),
     s_read    |-> Step("read", "system_status", {"s_request"})]

\* get_events, serving /api/events.
EventsProgram ==
    [e_acquire |-> Step("acquire", "fall_events_lock", {"e_read"}),
     e_read    |-> Step("read", "fall_events", {"e_release"}),
     e_release |-> Step("release", "fall_events_lock", {"e_acquire"})]

\* The program a thread runs.
ProgramOf(th) ==
    IF th = "detect" THEN DetectProgram
    ELSE IF th = "stream" THEN StreamProgram
    ELSE IF th = "status" THEN StatusProgram
    ELSE EventsProgram

\* The tests of the code that choose a branch: _finalize_clip runs when a
\* recording is open, the loading frame is served while output_frame is None.
BranchTaken(t, loc) ==
    IF loc \in {"d_add_finalize", "d_force_finalize"} THEN t.is_recording
    ELSE IF loc = "g_load_encode" THEN t.output_frame = "None"
    ELSE IF loc = "g_encode" THEN t.output_frame # "None"
    ELSE TRUE

\* No step taken yet.
NoStep == [thread |-> "none", op |-> "local", obj |-> "none", held |-> {}]

\* The threads at their first statement, the locks free, output_frame None.
ThreadsInit ==
    [at |-> [th \in Threads |->
                IF th = "detect" THEN "d_get"
                ELSE IF th = "stream" THEN "g_acquire"
                ELSE IF th = "status" THEN "s_request"
                ELSE "e_acquire"],
     holder |-> [l \in Locks |-> "free"],
     output_frame |-> "None",
     is_recording |-> FALSE,
     last |-> NoStep]

\* The locks a thread holds.
Held(t, th) == {l \in Locks : t.holder[l] = th}

\* Thread th runs the statement it is at and goes on to loc.
Run(t, th, loc) ==
    LET st == ProgramOf(th)[t.at[th]]
    IN  [t EXCEPT
            !.at[th] = loc,
            !.holder = [l \in Locks |->
                           IF st.op = "acquire" /\ st.obj = l THEN th
                           ELSE IF st.op = "release" /\ st.obj = l THEN "free"
                           ELSE @[l]],
            !.output_frame =
                IF st.op = "write" /\ st.obj = "output_frame" THEN "frame"
                ELSE @,
            !.is_recording =
                IF st.obj = "is_recording" THEN TRUE
                ELSE IF st.obj = "clip_file" THEN FALSE
                ELSE @,
            !.last = [thread |-> th, op |-> st.op, obj |-> st.obj,
                      held |-> Held(t, th)]]

\* ------------------------------------------------------------------ detect_and_publish

\* if no_frame_count > 30
NoFrameLimit == 30
\* if len(fall_events) > 50: fall_events.pop()
MaxEvents == 50
\* fall_events[:20]
QueryLimit == 20

\* An insertion that drops the first entry of a list grown too long.
InsertEventDroppingHead(events, event) ==
    IF Len(events) + 1 > MaxEvents
    THEN Tail(<<event>> \o events)
    ELSE <<event>> \o events

\* fall_events.insert(0, event), and fall_events.pop() when the list has
\* grown beyond MaxEvents.
InsertEvent(events, event) ==
    IF Len(events) + 1 > MaxEvents
    THEN SubSeq(<<event>> \o events, 1, Len(events))
    ELSE <<event>> \o events

\* S3Uploader.upload_sync(local_path): the URL, or None when the uploader is
\* disabled, the file does not exist or the upload fails.
UploadSync(a, cs, path, ok) ==
    IF ~a.s3 \/ ~(\E i \in 1..Len(cs.files) : cs.files[i].path = path)
    THEN None
    ELSE IF ok THEN <<"s3", path>> ELSE None

\* system_status['aws_s3'] and the like.
EnabledStatus(enabled) == IF enabled THEN "enabled" ELSE "disabled"

\* What an iteration that dispatches no event leaves in last: attempted lists
\* the sinks called, in the order of the calls, and payloads what each was
\* handed; failed holds the sinks whose call returned a failure; awaited the
\* network operations the loop waited for.
NoDispatch ==
    [attempted |-> <<>>, payloads |-> <<>>, failed |-> {}, awaited |-> {}]

\* last at the end of iteration n of the given kind, begun at time t, that
\* created no event.
LastInit(n, kind, t) ==
    [n |-> n, kind |-> kind, at |-> t, event |-> FALSE,
     dispatch |-> NoDispatch]

\* The state detect_and_publish starts its loop in, after a successful
\* camera.connect(): mqtt is 'connected' (the online status is then
\* published), 'disconnected' or 'disabled (using AWS IoT Core)'.
\* published is what the broker has been sent; sink_calls counts the delivery
\* calls made per sink; delivered counts the deliveries that succeeded; tasks
\* counts the threads started by log_event_async and send_alert_async that
\* have not ended, lost those that ended in failure; shutdown lists the steps
\* of the finally block taken; last tells what the last iteration did (see
\* NoDispatch and LastInit).
LoopInit(mqtt, a) ==
    [last_fall_time |-> 0,
     no_frame_count |-> 0,
     frames_processed |-> 0,
     output_frame |-> "None",
     fall_events |-> <<>>,
     system_status |-> [camera |-> "connected", mqtt |-> mqtt,
                        detection |-> "running", last_fall |-> None,
                        frames_processed |-> 0,
                        aws_s3 |-> EnabledStatus(a.available /\ a.s3),
                        aws_dynamodb |-> EnabledStatus(a.available /\ a.dynamodb),
                        aws_sns |-> EnabledStatus(a.available /\ a.sns)],
     publisher_connected |-> (mqtt = "connected"),
     published |-> IF mqtt = "connected" THEN <<"online">> ELSE <<>>,
     sink_calls |-> [s3 |-> 0, mqtt |-> 0, dynamodb |-> 0, sns |-> 0],
     delivered |-> [s3 |-> 0, mqtt |-> 0, dynamodb |-> 0, sns |-> 0],
     tasks |-> [dynamodb |-> 0, sns |-> 0],
     lost |-> [dynamodb |-> 0, sns |-> 0],
     shutdown |-> <<>>,
     last |-> LastInit(0, "none", 0)]

\* The objects the loop works on, taken together.
World(d, dc, cs, rv, lp) ==
    [det |-> d, det_call |-> dc, clip |-> cs, receiver |-> rv, loop |-> lp]

\* The iteration for frame is None, at time t.
NoFrameIteration(w, t) ==
    LET lp == w.loop
        count == lp.no_frame_count + 1
    IN  [w EXCEPT
           !.loop = [lp EXCEPT
                       !.no_frame_count = count,
                       !.output_frame =
                           IF count > NoFrameLimit THEN "no_signal" ELSE @,
                       !.system_status.camera =
                           IF count > NoFrameLimit THEN "waiting" ELSE @,
                       !.last = LastInit(@.n + 1, "no_frame", t)]]

\* MQTTPublisher.publish_fall_event, the broker reachable or not: a publisher
\* that has lost its connection tries to connect again first; the message goes
\* out when the broker is reachable.
PublishFallEvent(connected, reachable) ==
    [connected |-> connected \/ reachable, sent |-> reachable]

\* MQTTPublisher._on_disconnect.
OnDisconnect(lp) == [lp EXCEPT !.publisher_connected = FALSE]

\* The sinks with the local publish ahead of the upload.
DispatchPublishFirst == <<"mqtt", "s3", "dynamodb", "sns">>

\* The sinks of an event, in the order detect_and_publish calls them.
DispatchOrder == <<"s3", "mqtt", "dynamodb", "sns">>

\* Whether detect_and_publish calls the sink for an event with this clip path.
Invoked(a, lp, clip_path, sink) ==
    IF sink = "s3" THEN a.available /\ a.s3 /\ clip_path # None
    ELSE IF sink = "mqtt" THEN lp.system_status.mqtt = "connected"
    ELSE IF sink = "dynamodb" THEN a.available /\ a.dynamodb
    ELSE a.available /\ a.sns

\* The sinks called for an event, in the order of the calls.
Attempted(a, lp, clip_path) ==
    SelectSeq(DispatchOrder, LAMBDA sink : Invoked(a, lp, clip_path, sink))

\* What the sink is handed: upload_sync(clip_path),
\* publish_fall_event(confidence, clip_path), log_event_async(event),
\* send_alert_async(confidence, clip_url = s3_url or clip_path).
SinkPayload(sink, event) ==
    IF sink = "s3" THEN [local_path |-> event.clip_path]
    ELSE IF sink = "mqtt"
    THEN [confidence |-> event.confidence, clip_path |-> event.clip_path]
    ELSE IF sink = "dynamodb" THEN event
    ELSE [confidence |-> event.confidence,
          clip_url |-> IF event.s3_url # None THEN event.s3_url
                       ELSE event.clip_path]

\* Whether the clip file at path exists.
Exists(cs, path) == \E i \in 1..Len(cs.files) : cs.files[i].path = path

\* The handling of a fall reported by predict: lines 275 to 339.  t is the
\* time the loop reads, net the outcome of the network operations it makes.
HandleFall(a, cfg, lp, cs, confidence, t, net) ==
    IF (t - lp.last_fall_time) > cfg.FALL_COOLDOWN_SECONDS
    THEN LET clip_path == TriggerSaveReturn(cs, t)
             cs2 == TriggerSave(cs, t)
             upload == Invoked(a, lp, clip_path, "s3")
             s3_url == IF upload THEN UploadSync(a, cs2, clip_path, net.s3)
                       ELSE None
             publish == Invoked(a, lp, clip_path, "mqtt")
             sent == PublishFallEvent(lp.publisher_connected, net.mqtt)
             log == Invoked(a, lp, clip_path, "dynamodb")
             alert == Invoked(a, lp, clip_path, "sns")
             event == [timestamp |-> t, confidence |-> confidence,
                       clip_path |-> clip_path, s3_url |-> s3_url]
             attempted == Attempted(a, lp, clip_path)
         IN  [clip |-> cs2,
              loop |-> [lp EXCEPT
                          !.last_fall_time = t,
                          !.fall_events = InsertEvent(@, event),
                          !.system_status.last_fall = <<t>>,
                          !.publisher_connected =
                              IF publish THEN sent.connected ELSE @,
                          !.published =
                              IF publish /\ sent.sent
                              THEN Append(@, "fall_detected") ELSE @,
                          !.sink_calls =
                              [s3 |-> @.s3 + (IF upload THEN 1 ELSE 0),
                               mqtt |-> @.mqtt + (IF publish THEN 1 ELSE 0),
                               dynamodb |-> @.dynamodb + (IF log THEN 1 ELSE 0),
                               sns |-> @.sns + (IF alert THEN 1 ELSE 0)],
                          !.delivered.s3 =
                              @ + (IF s3_url # None THEN 1 ELSE 0),
                          !.delivered.mqtt =
                              @ + (IF publish /\ sent.sent THEN 1 ELSE 0),
                          !.tasks =
                              [dynamodb |-> @.dynamodb + (IF log THEN 1 ELSE 0),
                               sns |-> @.sns + (IF alert THEN 1 ELSE 0)],
                          !.last.event = TRUE,
                          !.last.dispatch =
                              [attempted |-> attempted,
                               payloads |->
                                   [k \in 1..Len(attempted) |->
                                       SinkPayload(attempted[k], event)],
                               failed |->
                                   (IF upload /\ s3_url = None
                                    THEN {"s3"} ELSE {})
                                   \cup (IF publish /\ ~sent.sent
                                         THEN {"mqtt"} ELSE {}),
                               awaited |->
                                   (IF upload /\ Exists(cs2, clip_path)
                                    THEN {"s3_upload"} ELSE {})
                                   \cup (IF publish /\ ~lp.publisher_connected
                                         THEN {"mqtt_connect"} ELSE {})]]]
    ELSE [clip |-> cs, loop |-> lp]

\* The thread started by log_event_async or send_alert_async ends, its
\* put_item or publish having succeeded or failed.
TaskEnds(lp, sink, ok) ==
    [lp EXCEPT !.tasks[sink] = @ - 1,
               !.delivered[sink] = @ + (IF ok THEN 1 ELSE 0),
               !.lost[sink] = @ + (IF ok THEN 0 ELSE 1)]

\* The iteration for a frame: predict at time t, add_frame, and the handling
\* of a fall at time t3.
FrameIteration(a, cfg, w, frame, t, t3, net) ==
    LET r == Predict(w.det, frame, t, t)
        cs == AddFrame(w.clip, w.clip.ingested + 1)
        lp == [w.loop EXCEPT
                 !.no_frame_count = 0,
                 !.system_status.camera = "receiving",
                 !.frames_processed = @ + 1,
                 !.system_status.frames_processed = w.loop.frames_processed + 1,
                 !.last = LastInit(@.n + 1, "frame", t)]
        h == IF r.is_fall
             THEN HandleFall(a, cfg, lp, cs, r.confidence, t3, net)
             ELSE [clip |-> cs, loop |-> lp]
    IN  [w EXCEPT
           !.det = r.det,
           !.det_call = PredictCall(w.det_call, w.det, frame, t, t, r),
           !.clip = h.clip,
           !.loop = [h.loop EXCEPT !.output_frame = "annotated"]]

\* An iteration whose get_frame takes the frame away from the receiver.
IterationConsuming(a, cfg, w, t, t3, net) ==
    IF GetFrame(w.receiver) = None
    THEN NoFrameIteration(w, t)
    ELSE [FrameIteration(a, cfg, w, GetFrame(w.receiver)[1], t, t3, net)
            EXCEPT !.receiver = [w.receiver EXCEPT !.current_frame = None]]

\* One iteration of the while loop of detect_and_publish.
Iteration(a, cfg, w, t, t3, net) ==
    IF GetFrame(w.receiver) = None
    THEN NoFrameIteration(w, t)
    ELSE FrameIteration(a, cfg, w, GetFrame(w.receiver)[1], t, t3, net)

\* The world after n more iterations at time t, all network operations
\* succeeding.
RECURSIVE IterateTimes(_, _, _, _, _)
IterateTimes(a, cfg, w, t, n) ==
    IF n = 0 \/ w.loop.last.n < 0
    THEN w
    ELSE IterateTimes(a, cfg,
                      Iteration(a, cfg, w, t, t, [s3 |-> TRUE, mqtt |-> TRUE]),
                      t, n - 1)

\* The steps in the order: force_save, offline status, release of the camera.
ShutdownReleaseLast == <<"force_save", "offline", "disconnect">>

\* The finally block of detect_and_publish, in its order: camera.disconnect(),
\* clip_saver.force_save(), publish_status('offline') and the publisher's
\* disconnect.
ShutdownOrder == <<"disconnect", "force_save", "offline">>

\* The step of the finally block that follows pc ("loop": none has run).
ShutdownNext(at) ==
    IF at = "loop" THEN ShutdownOrder[1]
    ELSE IF at = ShutdownOrder[1] THEN ShutdownOrder[2]
    ELSE IF at = ShutdownOrder[2] THEN ShutdownOrder[3]
    ELSE "done"

\* One step of the finally block.
ShutdownStep(w, step) ==
    LET lp == [w.loop EXCEPT !.shutdown = Append(@, step)]
    IN  IF step = "disconnect"
        THEN [w EXCEPT !.receiver = ReceiverDisconnect(@), !.loop = lp]
        ELSE IF step = "force_save"
        THEN [w EXCEPT !.clip = ForceSave(@), !.loop = lp]
        ELSE [w EXCEPT
                !.loop = [lp EXCEPT
                            !.published =
                                IF lp.system_status.mqtt = "connected"
                                   /\ lp.publisher_connected
                                THEN Append(@, "offline") ELSE @,
                            !.publisher_connected = FALSE]]

\* The last two assignments of the finally block.
ShutdownEnd(lp) ==
    [lp EXCEPT !.system_status.camera = "disconnected",
               !.system_status.detection = "stopped"]

\* ------------------------------------------------------------------ raspi_camera.py

\* The camera program before it has built its publisher.  local is the
\* MQTTPublisher, not connected when constructed; published lists what the
\* program has published, through which publisher; falls counts the fall
\* events it has handled; iot_usable, iot_ok and reachable are what the
\* start found: AWS IoT Core enabled and its SDK importable, its connection
\* made, the local broker reachable.
PiInit ==
    [phase |-> "start", publisher |-> "none", local |-> [connected |-> FALSE],
     mqtt |-> "disconnected", published |-> <<>>, falls |-> 0,
     iot_usable |-> FALSE, iot_ok |-> FALSE, reachable |-> FALSE]

\* ------------------------------------------------------------------ the delivery sinks

\* The sinks before S3Uploader, DynamoDBLogger, SNSNotifier and the local
\* MQTTPublisher are constructed.  uploaded, items, alerts and statuses count
\* what each service has received; requests counts the requests sent over
\* the network, calls the delivery calls made; last is the last of these
\* calls, what it returned ("None", "False", "True" or "url") and whether
\* it raised.
SinksIdle ==
    [built |-> FALSE,
     s3 |-> [enabled |-> FALSE, uploaded |-> 0],
     dynamodb |-> [enabled |-> FALSE, items |-> 0],
     sns |-> [enabled |-> FALSE, alerts |-> 0],
     mqtt |-> [connected |-> FALSE, statuses |-> 0],
     requests |-> 0,
     calls |-> 0,
     last |-> [sink |-> "none", ret |-> "None", raised |-> FALSE]]

\* log_event on a logger that does not look at its enabled flag.
LogEventAlways(x, ok) ==
    [x EXCEPT !.dynamodb.items = IF ok THEN @ + 1 ELSE @,
              !.requests = @ + 1,
              !.calls = @ + 1,
              !.last = [sink |-> "dynamodb",
                        ret |-> IF ok THEN "True" ELSE "False",
                        raised |-> FALSE]]

\* DynamoDBLogger.log_event(event_data), put_item succeeding or not.
LogEvent(x, ok) ==
    IF ~x.dynamodb.enabled
    THEN [x EXCEPT !.calls = @ + 1,
                   !.last = [sink |-> "dynamodb", ret |-> "False",
                             raised |-> FALSE]]
    ELSE [x EXCEPT !.dynamodb.items = IF ok THEN @ + 1 ELSE @,
                   !.requests = @ + 1,
                   !.calls = @ + 1,
                   !.last = [sink |-> "dynamodb",
                             ret |-> IF ok THEN "True" ELSE "False",
                             raised |-> FALSE]]

\* The last answer of get_events: none yet.
QueryInit == [answered |-> FALSE, events |-> <<>>]

\* ------------------------------------------------------------------ components left idle

\* The sinks: all AWS sinks enabled, or aws_services not importable.
AwsAll == [available |-> TRUE, s3 |-> TRUE, dynamodb |-> TRUE, sns |-> TRUE]
AwsNone == [available |-> FALSE, s3 |-> FALSE, dynamodb |-> FALSE, sns |-> FALSE]

\* The loop and its objects in the other specifications: never run.
LoopIdle ==
    /\ receiver = ReceiverInit
    /\ aws = AwsNone
    /\ loop = LoopInit("disabled (using AWS IoT Core)", AwsNone)
    /\ pc = "loop"
    /\ camera = LocalCameraInit
    /\ iot = IotInit
    /\ threads = ThreadsInit
    /\ pi = PiInit
    /\ sinks = SinksIdle
    /\ query = QueryInit
    /\ process = "main"

\* Every component as it is built, none of them run yet.
InitIdle ==
    /\ LoopIdle
    /\ config = DefaultConfig
    /\ now = StartTime
    /\ clip = ClipSaverInit(config, 0, 0, 0)
    /\ clip_call = [op |-> "init", ret |-> None, wrote |-> FALSE]
    /\ det = FallDetectorInit(config.FALL_CONFIDENCE_THRESHOLD)
    /\ det_call = NoDetCall

\* ------------------------------------------------- the ClipSaver on its own

\* A ClipSaver built with any arguments, each given or omitted.
InitClip ==
    /\ config = DefaultConfig
    /\ now = StartTime
    /\ \E bs \in 0..MaxSeconds, ps \in 0..MaxSeconds, f \in 0..MaxFps :
          clip = ClipSaverInit(config, bs, ps, f)
    /\ clip_call = [op |-> "init", ret |-> None, wrote |-> FALSE]
    /\ det = FallDetectorInit(config.FALL_CONFIDENCE_THRESHOLD)
    /\ det_call = NoDetCall
    /\ LoopIdle

\* Whether a call that took the ClipSaver from cs to cs2 wrote a clip file.
Wrote(cs, cs2) == Len(cs2.files) > Len(cs.files)

\* Time passes.
Tick ==
    /\ now < MaxTime
    /\ now' = now + 1
    /\ UNCHANGED <<sideVars, config, clipVars, detVars, loopVars>>

\* A caller passes the next frame to add_frame.
CallAddFrame ==
    /\ clip.ingested < MaxFrames
    /\ clip' = AddFrame(clip, clip.ingested + 1)
    /\ clip_call' = [op |-> "add_frame", ret |-> None, wrote |-> Wrote(clip, clip')]
    /\ UNCHANGED <<sideVars, config, now, detVars, loopVars>>

\* A caller calls trigger_save.
CallTriggerSave ==
    /\ Len(clip.files) < MaxClips
    /\ clip' = TriggerSave(clip, now)
    /\ clip_call' = [op |-> "trigger_save", ret |-> TriggerSaveReturn(clip, now),
                     wrote |-> FALSE]
    /\ UNCHANGED <<sideVars, config, now, detVars, loopVars>>

\* A caller calls force_save.
CallForceSave ==
    /\ clip' = ForceSave(clip)
    /\ clip_call' = [op |-> "force_save", ret |-> None, wrote |-> Wrote(clip, clip')]
    /\ UNCHANGED <<sideVars, config, now, detVars, loopVars>>

NextClip == Tick \/ CallAddFrame \/ CallTriggerSave \/ CallForceSave

SpecClip == InitClip /\ [][NextClip]_vars

\* ------------------------------------- the ClipSaver and a failing clip directory

\* The loop passes the next frame to add_frame.  An exception add_frame
\* raises meets no handler in detect_and_publish, whose try catches
\* KeyboardInterrupt only: it ends the loop.
LoopAddFrame(outcome) ==
    /\ pc = "loop"
    /\ clip.ingested < MaxFrames
    /\ LET r == AddFrameWriting(clip, clip.ingested + 1, outcome)
       IN  /\ clip' = r.clip
           /\ clip_call' = [op |-> "add_frame", ret |-> None,
                            wrote |-> Wrote(clip, r.clip)]
           /\ pc' = IF r.raised THEN "raised" ELSE pc
    /\ UNCHANGED <<sideVars, config, now, detVars, receiver, aws, loop>>

\* The loop, having detected a fall, calls trigger_save.
LoopTriggerSave ==
    /\ pc = "loop"
    /\ Len(clip.files) < MaxClips
    /\ clip' = TriggerSave(clip, now)
    /\ clip_call' = [op |-> "trigger_save", ret |-> TriggerSaveReturn(clip, now),
                     wrote |-> FALSE]
    /\ UNCHANGED <<sideVars, config, now, detVars, loopVars>>

\* The loop is interrupted and its finally block calls force_save.
LoopForceSave(outcome) ==
    /\ pc = "loop"
    /\ LET r == IF clip.is_recording /\ clip.recording_frames # <<>>
                THEN FinalizeClipWriting(clip, outcome)
                ELSE [clip |-> clip, raised |-> FALSE]
       IN  /\ clip' = r.clip
           /\ clip_call' = [op |-> "force_save", ret |-> None,
                            wrote |-> Wrote(clip, r.clip)]
           /\ pc' = IF r.raised THEN "raised" ELSE "done"
    /\ UNCHANGED <<sideVars, config, now, detVars, receiver, aws, loop>>

NextWrite ==
    \/ Tick
    \/ \E outcome \in {"written", "unwritten", "raised"} : LoopAddFrame(outcome)
    \/ LoopTriggerSave
    \/ \E outcome \in {"written", "unwritten", "raised"} : LoopForceSave(outcome)

SpecWrite == InitClip /\ [][NextWrite]_vars

\* ---------------------------------------------- the FallDetector on its own

\* The frames a detector has been shown before a behaviour starts: none, or
\* all but one of the calibration frames, all alike and within one second.
WarmUps == {0, calibration_needed - 1}

\* The frame shown during the warm-up: a subject standing or crouching.
WarmUpFrames ==
    {f \in Frames : /\ Qualifies(f)
                    /\ f.aspect_ratio \in {9, 20}
                    /\ f.body_angle = 90 /\ f.center_y = 3 /\ f.head_y = 2}

\* The last time the detector's clock reaches.
DetectorEnd == StartTime + DetectorSpan

\* A detector built with the configured threshold, fresh or warmed up; the
\* cooldown configured is that of config.py or a shorter one.
InitDet ==
    /\ \E c \in {1, FALL_COOLDOWN_SECONDS} :
          config = [DefaultConfig EXCEPT !.FALL_COOLDOWN_SECONDS = c]
    /\ now = StartTime
    /\ clip = ClipSaverInit(config, 0, 0, 0)
    /\ clip_call = [op |-> "init", ret |-> None, wrote |-> FALSE]
    /\ \E n \in WarmUps, f \in WarmUpFrames :
          det = PredictTimes(FallDetectorInit(config.FALL_CONFIDENCE_THRESHOLD),
                             f, StartTime, n)
    /\ det_call = NoDetCall
    /\ LoopIdle

\* Whether the smoothing predict would do on this frame is exact.
Drawable(d, frame) ==
    (/\ Qualifies(frame)
     /\ d.calibration_frames < calibration_needed
     /\ frame.aspect_ratio > UprightRatio
     /\ d.standing_height_ratio # NoRatio)
        => SmoothExact(d.standing_height_ratio, frame.aspect_ratio)

\* A caller calls predict on a frame; the clock is read at t1 and at t2.
CallPredict(frame, t1, t2) ==
    /\ det_call.n < MaxCalls
    /\ Drawable(det, frame)
    /\ LET r == Predict(det, frame, t1, t2)
       IN  /\ det' = r.det
           /\ det_call' = PredictCall(det_call, det, frame, t1, t2, r)
    /\ now' = t2
    /\ UNCHANGED <<sideVars, config, clipVars, loopVars>>

\* A caller calls reset.
CallReset ==
    /\ det_call.n < MaxCalls
    /\ det' = Reset(det)
    /\ det_call' = [det_call EXCEPT
                       !.op = "reset", !.n = @ + 1, !.is_fall = FALSE,
                       !.confidence = 0, !.qualified = FALSE, !.raw_fall = FALSE,
                       !.frame = NoPerson, !.raw_confidence = 0]
    /\ UNCHANGED <<sideVars, config, now, clipVars, loopVars>>

\* The times a call made after time t may read: t1 for the history entry and
\* t2 for the cooldown.
ClockReads(t) ==
    {r \in (t..DetectorEnd) \X (t..DetectorEnd) :
        r[1] - t \in {0, 1, fall_cooldown} /\ r[2] - r[1] \in {0, 1}}

NextDet ==
    \/ \E frame \in Frames, r \in ClockReads(now) : CallPredict(frame, r[1], r[2])
    \/ CallReset

SpecDet == InitDet /\ [][NextDet]_vars

\* ---------------------------------------------- the FallDetector after a fall

\* A detector calibrated on a person standing that accepted a fall at
\* StartTime: left as it is, or reset since and shown no frame or all
\* calibration frames but one.
InitFallen ==
    /\ config = DefaultConfig
    /\ now = StartTime
    /\ clip = ClipSaverInit(config, 0, 0, 0)
    /\ clip_call = [op |-> "init", ret |-> None, wrote |-> FALSE]
    /\ LET calibrated ==
               PredictTimes(FallDetectorInit(config.FALL_CONFIDENCE_THRESHOLD),
                            Person(9, 20, 90, 3, 2), StartTime,
                            calibration_needed)
           fallen == Predict(calibrated, Person(9, 5, 10, 9, 8),
                             StartTime, StartTime).det
       IN  \/ det = fallen
           \/ \E n \in WarmUps, f \in WarmUpFrames :
                 det = PredictTimes(Reset(fallen), f, StartTime, n)
    /\ det_call = [NoDetCall EXCEPT !.accepted_at = StartTime]
    /\ LoopIdle

SpecFallen == InitFallen /\ [][NextDet]_vars

\* ------------------------------------------------- detect_and_publish (EC2, remote)

\* The frames the remote camera sends: nobody, a person standing, a person
\* lying low in the frame.
LoopFrames == {NoPerson, Person(9, 20, 90, 3, 2), Person(9, 5, 10, 9, 8)}

\* The configuration of the loop: one frame a second, pre- and post-roll of
\* MaxSeconds.
LoopConfig == [DefaultConfig EXCEPT !.CAMERA_FPS = 1]

\* The last time the loop's clock reaches.
LoopEnd == StartTime + LoopSpan

\* The world at the start of the loop.
FreshWorld(a, mqtt, rv) ==
    World(FallDetectorInit(LoopConfig.FALL_CONFIDENCE_THRESHOLD), NoDetCall,
          ClipSaverInit(LoopConfig, 0, 0, 0), rv, LoopInit(mqtt, a))

\* The worlds a behaviour starts in: the loop about to start; the loop after
\* the calibration frames, the camera showing one frame of a person standing
\* all along; the loop after NoFrameLimit iterations without any frame.  All
\* within the second StartTime.
StartWorlds(a, mqtt) ==
    {FreshWorld(a, mqtt, ReceiverInit),
     IterateTimes(a, LoopConfig,
                  FreshWorld(a, mqtt, OnMessage(ReceiverInit,
                                             Person(9, 20, 90, 3, 2), StartTime)),
                  StartTime, calibration_needed),
     IterateTimes(a, LoopConfig, FreshWorld(a, mqtt, ReceiverInit),
                  StartTime, NoFrameLimit)}

\* The iterations counted from the start of the behaviour.
StartOfCount(w) == [w EXCEPT !.loop.last.n = 0, !.det_call.n = 0]

Init ==
    /\ config = LoopConfig
    /\ now = StartTime
    /\ aws \in {AwsAll, AwsNone}
    /\ pc = "loop"
    /\ camera = LocalCameraInit
    /\ iot = IotInit
    /\ threads = ThreadsInit
    /\ pi = PiInit
    /\ sinks = SinksIdle
    /\ query = QueryInit
    /\ process = "main"
    /\ clip_call = [op |-> "init", ret |-> None, wrote |-> FALSE]
    /\ \E mqtt \in {"connected", "disabled (using AWS IoT Core)"} :
       \E w0 \in StartWorlds(aws, mqtt) :
          LET w == StartOfCount(w0)
          IN  /\ det = w.det
              /\ det_call = w.det_call
              /\ clip = w.clip
              /\ receiver = w.receiver
              /\ loop = w.loop

\* The world now.
Now == World(det, det_call, clip, receiver, loop)

\* The world becomes w.
Becomes(w) ==
    /\ det' = w.det
    /\ det_call' = w.det_call
    /\ clip' = w.clip
    /\ receiver' = w.receiver
    /\ loop' = w.loop

\* The subscription callback delivers a frame from the remote camera.
Deliver(frame) ==
    /\ pc = "loop"
    /\ receiver.connected
    /\ receiver' = OnMessage(receiver, frame, now)
    /\ UNCHANGED <<sideVars, config, now, clipVars, detVars, aws, loop, pc>>

\* The times an iteration begun after time t may read: the first for predict,
\* the second for the handling of a fall.
LoopReads(t) ==
    {r \in (t..LoopEnd) \X (t..LoopEnd) :
        r[1] - t \in {0, 1, fall_cooldown} /\ r[2] - r[1] \in {0, 1}}

\* The loop runs one iteration.
RunIteration(t, t3, net) ==
    /\ pc = "loop"
    /\ loop.last.n < MaxIterations
    /\ Becomes(Iteration(aws, config, Now, t, t3, net))
    /\ now' = t3
    /\ UNCHANGED <<sideVars, config, clip_call, aws, pc>>

\* The broker drops the publisher's connection.
BrokerDisconnects ==
    /\ pc = "loop"
    /\ loop.publisher_connected
    /\ loop' = OnDisconnect(loop)
    /\ UNCHANGED <<sideVars, config, now, clipVars, detVars, receiver, aws, pc>>

\* A thread started for the event log or the notification ends.
TaskCompletes(sink, ok) ==
    /\ loop.tasks[sink] > 0
    /\ loop' = TaskEnds(loop, sink, ok)
    /\ UNCHANGED <<sideVars, config, now, clipVars, detVars, receiver, aws, pc>>

\* The loop is interrupted, or the finally block goes on: its next step runs.
RunShutdownStep ==
    /\ pc # "done"
    /\ ShutdownNext(pc) # "done"
    /\ Becomes(ShutdownStep(Now, ShutdownNext(pc)))
    /\ pc' = ShutdownNext(pc)
    /\ UNCHANGED <<sideVars, config, now, clip_call, aws>>

\* The finally block ends.
RunShutdownEnd ==
    /\ pc # "done"
    /\ ShutdownNext(pc) = "done"
    /\ loop' = ShutdownEnd(loop)
    /\ pc' = "done"
    /\ UNCHANGED <<sideVars, config, now, clipVars, detVars, receiver, aws>>

Next ==
    \/ \E frame \in LoopFrames : Deliver(frame)
    \/ \E r \in LoopReads(now), net \in [s3 : BOOLEAN, mqtt : BOOLEAN] :
          RunIteration(r[1], r[2], net)
    \/ BrokerDisconnects
    \/ \E sink \in {"dynamodb", "sns"}, ok \in BOOLEAN : TaskCompletes(sink, ok)
    \/ RunShutdownStep
    \/ RunShutdownEnd

Spec == Init /\ [][Next]_vars

\* ------------------------------------------------- the dispatch of events

\* The AWS sinks enabled: none (aws_services not importable), or any of the
\* three.
AwsConfigs ==
    {AwsNone} \cup
    {[available |-> TRUE, s3 |-> s3, dynamodb |-> dynamodb, sns |-> sns] :
        s3 \in BOOLEAN, dynamodb \in BOOLEAN, sns \in BOOLEAN}

\* The loop after its calibration frames, all of one person standing, the
\* camera then delivering a frame of the person lying.
InitDispatch ==
    /\ config = LoopConfig
    /\ now = StartTime
    /\ aws \in AwsConfigs
    /\ pc = "loop"
    /\ camera = LocalCameraInit
    /\ iot = IotInit
    /\ threads = ThreadsInit
    /\ pi = PiInit
    /\ sinks = SinksIdle
    /\ query = QueryInit
    /\ process = "main"
    /\ clip_call = [op |-> "init", ret |-> None, wrote |-> FALSE]
    /\ \E mqtt \in {"connected", "disabled (using AWS IoT Core)"} :
          LET w0 == IterateTimes(aws, LoopConfig,
                                 FreshWorld(aws, mqtt,
                                            OnMessage(ReceiverInit,
                                                      Person(9, 20, 90, 3, 2),
                                                      StartTime)),
                                 StartTime, calibration_needed)
              w == StartOfCount(w0)
          IN  /\ det = w.det
              /\ det_call = w.det_call
              /\ clip = w.clip
              /\ receiver = OnMessage(w.receiver, Person(9, 5, 10, 9, 8),
                                      StartTime)
              /\ loop = w.loop

NextDispatch ==
    \/ \E frame \in LoopFrames : Deliver(frame)
    \/ \E r \in LoopReads(now), net \in [s3 : BOOLEAN, mqtt : BOOLEAN] :
          RunIteration(r[1], r[2], net)
    \/ BrokerDisconnects
    \/ \E sink \in {"dynamodb", "sns"}, ok \in BOOLEAN : TaskCompletes(sink, ok)

SpecDispatch == InitDispatch /\ [][NextDispatch]_vars

\* ------------------------------------------------- the frame sources on their own

\* Time passes.
SourceTick ==
    /\ now < StartTime + SourceSpan
    /\ now' = now + 1
    /\ UNCHANGED <<sideVars, config, clipVars, detVars, loopVars>>

\* A caller opens the local camera: LocalCamera.connect(), the device
\* opening or not.
CameraConnect(opens) ==
    /\ camera.cap = "None"
    /\ camera' = [camera EXCEPT !.cap = IF opens THEN "opened" ELSE "failed"]
    /\ UNCHANGED <<process, query, sinks, pi, iot, threads, config, now,
                   clipVars, detVars, loopVars>>

\* A caller asks the local camera for a frame.
CameraGetFrame(ret) ==
    /\ camera' = LocalGetFrame(camera, ret, now)
    /\ UNCHANGED <<process, query, sinks, pi, iot, threads, config, now,
                   clipVars, detVars, loopVars>>

\* A caller releases the local camera: LocalCamera.disconnect().
CameraDisconnect ==
    /\ camera' = IF camera.cap # "None"
                 THEN [camera EXCEPT !.cap = "released"] ELSE camera
    /\ UNCHANGED <<process, query, sinks, pi, iot, threads, config, now,
                   clipVars, detVars, loopVars>>

\* The subscription callback of the receiver gets a frame.
ReceiverOnMessage(frame) ==
    /\ receiver.connected
    /\ receiver' = OnMessage(receiver, frame, now)
    /\ UNCHANGED <<sideVars, config, now, clipVars, detVars, aws, loop, pc>>

\* A caller disconnects the receiver.
ReceiverRelease ==
    /\ receiver.connected
    /\ receiver' = ReceiverDisconnect(receiver)
    /\ UNCHANGED <<sideVars, config, now, clipVars, detVars, aws, loop, pc>>

NextSource ==
    \/ SourceTick
    \/ \E opens \in BOOLEAN : CameraConnect(opens)
    \/ \E ret \in BOOLEAN : CameraGetFrame(ret)
    \/ CameraDisconnect
    \/ \E frame \in LoopFrames : ReceiverOnMessage(frame)
    \/ ReceiverRelease

SpecSource == InitIdle /\ [][NextSource]_vars

\* ------------------------------------------------- the AWS IoT publisher on its own

\* The confidences of the events published.
IotConfidences == {7, 10}

\* get_mqtt_publisher connects the publisher.
PublisherConnect(ok) ==
    /\ iot.client = "None"
    /\ iot' = IotConnect(iot, ok)
    /\ UNCHANGED <<process, query, sinks, pi, camera, threads, config, now,
                   clipVars, detVars, loopVars>>

\* The camera program publishes a fall event.
PublisherPublish(confidence) ==
    /\ Len(iot.attempts) < MaxPublishes
    /\ iot' = IotPublishFallEvent(iot, confidence)
    /\ UNCHANGED <<process, query, sinks, pi, camera, threads, config, now,
                   clipVars, detVars, loopVars>>

\* The network drops the connection of the client.
PublisherLinkLost ==
    /\ iot.link = "up"
    /\ iot' = [iot EXCEPT !.link = "down"]
    /\ UNCHANGED <<process, query, sinks, pi, camera, threads, config, now,
                   clipVars, detVars, loopVars>>

\* The client, configured to, reconnects.
PublisherAutoReconnect ==
    /\ iot.auto_reconnect
    /\ iot.connected
    /\ iot.link = "down"
    /\ iot' = [iot EXCEPT !.link = "up"]
    /\ UNCHANGED <<process, query, sinks, pi, camera, threads, config, now,
                   clipVars, detVars, loopVars>>

\* The client, connected again, drains its offline queue.
PublisherDrain ==
    /\ iot.link = "up"
    /\ iot.offline_queue # <<>>
    /\ LET message == Head(iot.offline_queue)
       IN  iot' = [iot EXCEPT !.offline_queue = Tail(@),
                              !.received = Append(@, message),
                              !.attempts[message.id] = @ + 1]
    /\ UNCHANGED <<process, query, sinks, pi, camera, threads, config, now,
                   clipVars, detVars, loopVars>>

\* The camera program shuts the publisher down: disconnect().
PublisherDisconnect ==
    /\ iot.client # "None"
    /\ iot' = IF iot.connected
              THEN [iot EXCEPT !.connected = FALSE, !.link = "down",
                               !.ret = None]
              ELSE [iot EXCEPT !.ret = None]
    /\ UNCHANGED <<process, query, sinks, pi, camera, threads, config, now,
                   clipVars, detVars, loopVars>>

NextIot ==
    \/ \E ok \in BOOLEAN : PublisherConnect(ok)
    \/ \E confidence \in IotConfidences : PublisherPublish(confidence)
    \/ PublisherLinkLost
    \/ PublisherAutoReconnect
    \/ PublisherDrain
    \/ PublisherDisconnect

SpecIot == InitIdle /\ [][NextIot]_vars

\* ------------------------------------------------- the camera program of the Raspberry Pi

\* The program builds its publisher and starts.  get_mqtt_publisher() gives
\* the AWS IoT publisher when it is usable and its connect() succeeds, a new
\* MQTTPublisher otherwise; the start then tests
\* 'mqtt_publisher.connected if hasattr(mqtt_publisher, "connected") else
\* mqtt_publisher.connect()', where both publisher classes have the
\* attribute, sets the status and publishes the online message.
PiStart(usable, ok, reachable) ==
    /\ pi.phase = "start"
    /\ iot' = IF usable THEN IotConnect(iot, ok) ELSE iot
    /\ LET kind == IF usable /\ iot'.connected THEN "iot" ELSE "local"
           connected == IF kind = "iot" THEN iot'.connected
                        ELSE pi.local.connected
       IN  pi' = [pi EXCEPT
                    !.phase = "loop",
                    !.publisher = kind,
                    !.mqtt = IF connected THEN "connected" ELSE "disconnected",
                    !.published =
                        IF connected THEN Append(@, <<kind, "online">>) ELSE @,
                    !.iot_usable = usable,
                    !.iot_ok = ok,
                    !.reachable = reachable]
    /\ UNCHANGED <<process, query, sinks, camera, threads, config, now,
                   clipVars, detVars, loopVars>>

\* The program handles a fall: 'if system_status["mqtt"] == "connected":
\* mqtt_publisher.publish_fall_event(confidence, clip_path)'.
PiFallEvent(confidence) ==
    /\ pi.phase = "loop"
    /\ pi.falls < MaxPublishes
    /\ iot' = IF pi.mqtt = "connected" /\ pi.publisher = "iot"
              THEN IotPublishFallEvent(iot, confidence) ELSE iot
    /\ LET local == PublishFallEvent(pi.local.connected, pi.reachable)
           sent == /\ pi.mqtt = "connected"
                   /\ IF pi.publisher = "iot" THEN iot'.ret ELSE local.sent
       IN  pi' = [pi EXCEPT
                    !.falls = @ + 1,
                    !.local.connected =
                        IF pi.mqtt = "connected" /\ pi.publisher = "local"
                        THEN local.connected ELSE @,
                    !.published =
                        IF sent THEN Append(@, <<pi.publisher, "fall_detected">>)
                        ELSE @]
    /\ UNCHANGED <<process, query, sinks, camera, threads, config, now,
                   clipVars, detVars, loopVars>>

NextPi ==
    \/ \E usable \in BOOLEAN, ok \in BOOLEAN, reachable \in BOOLEAN :
          PiStart(usable, ok, reachable)
    \/ \E confidence \in IotConfidences : PiFallEvent(confidence)
    \/ PublisherLinkLost
    \/ PublisherAutoReconnect
    \/ PublisherDrain

SpecPi == InitIdle /\ [][NextPi]_vars

\* ------------------------------------------------- the delivery sinks on their own

\* What the actions of the sinks leave alone.
sinkRest ==
    <<process, query, pi, camera, iot, threads, config, now, clipVars, detVars, loopVars>>

\* The constructors: each AWS sink is enabled when its configuration says so
\* and its client could be created; the publisher starts not connected.
SinksConstruct(s3, dynamodb, sns) ==
    /\ ~sinks.built
    /\ sinks' = [sinks EXCEPT !.built = TRUE,
                              !.s3.enabled = s3,
                              !.dynamodb.enabled = dynamodb,
                              !.sns.enabled = sns]
    /\ UNCHANGED sinkRest

\* S3Uploader.upload_sync(local_path), the file existing or not and the
\* upload succeeding or not.
CallUploadSync(exists, ok) ==
    /\ sinks.built
    /\ sinks.calls < MaxSinkCalls
    /\ LET files == IF exists THEN <<[path |-> "clip"]>> ELSE <<>>
           ret == UploadSync([s3 |-> sinks.s3.enabled], [files |-> files],
                             "clip", ok)
       IN  sinks' = [sinks EXCEPT
                       !.s3.uploaded = IF ret # None THEN @ + 1 ELSE @,
                       !.requests =
                           IF sinks.s3.enabled /\ exists THEN @ + 1 ELSE @,
                       !.calls = @ + 1,
                       !.last = [sink |-> "s3",
                                 ret |-> IF ret = None THEN "None" ELSE "url",
                                 raised |-> FALSE]]
    /\ UNCHANGED sinkRest

\* A call of log_event.
CallLogEvent(ok) ==
    /\ sinks.built
    /\ sinks.calls < MaxSinkCalls
    /\ sinks' = LogEvent(sinks, ok)
    /\ UNCHANGED sinkRest

\* SNSNotifier.send_fall_alert(confidence, clip_url), the publish succeeding
\* or not.
CallSendFallAlert(ok) ==
    /\ sinks.built
    /\ sinks.calls < MaxSinkCalls
    /\ sinks' =
          IF ~sinks.sns.enabled
          THEN [sinks EXCEPT !.calls = @ + 1,
                             !.last = [sink |-> "sns", ret |-> "False",
                                       raised |-> FALSE]]
          ELSE [sinks EXCEPT !.sns.alerts = IF ok THEN @ + 1 ELSE @,
                             !.requests = @ + 1,
                             !.calls = @ + 1,
                             !.last = [sink |-> "sns",
                                       ret |-> IF ok THEN "True" ELSE "False",
                                       raised |-> FALSE]]
    /\ UNCHANGED sinkRest

\* MQTTPublisher.publish_status(status), the publish succeeding or not.
CallPublishStatus(ok) ==
    /\ sinks.built
    /\ sinks.calls < MaxSinkCalls
    /\ sinks' =
          IF ~sinks.mqtt.connected
          THEN [sinks EXCEPT !.calls = @ + 1,
                             !.last = [sink |-> "mqtt", ret |-> "False",
                                       raised |-> FALSE]]
          ELSE [sinks EXCEPT !.mqtt.statuses = IF ok THEN @ + 1 ELSE @,
                             !.requests = @ + 1,
                             !.calls = @ + 1,
                             !.last = [sink |-> "mqtt",
                                       ret |-> IF ok THEN "True" ELSE "False",
                                       raised |-> FALSE]]
    /\ UNCHANGED sinkRest

\* MQTTPublisher.connect() and _on_connect, the broker reachable or not.
CallConnect(reachable) ==
    /\ sinks.built
    /\ ~sinks.mqtt.connected
    /\ sinks.requests < MaxSinkCalls
    /\ sinks' = [sinks EXCEPT !.mqtt.connected = reachable,
                              !.requests = @ + 1]
    /\ UNCHANGED sinkRest

\* MQTTPublisher._on_disconnect.
BrokerGone ==
    /\ sinks.mqtt.connected
    /\ sinks' = [sinks EXCEPT !.mqtt.connected = FALSE]
    /\ UNCHANGED sinkRest

NextSinks ==
    \/ \E s3 \in BOOLEAN, dynamodb \in BOOLEAN, sns \in BOOLEAN :
          SinksConstruct(s3, dynamodb, sns)
    \/ \E exists \in BOOLEAN, ok \in BOOLEAN : CallUploadSync(exists, ok)
    \/ \E ok \in BOOLEAN : CallLogEvent(ok)
    \/ \E ok \in BOOLEAN : CallSendFallAlert(ok)
    \/ \E ok \in BOOLEAN : CallPublishStatus(ok)
    \/ \E reachable \in BOOLEAN : CallConnect(reachable)
    \/ BrokerGone

SpecSinks == InitIdle /\ [][NextSinks]_vars

\* ------------------------------------------------- the event history

\* The time between two falls of the history a behaviour starts with.
FallSpacing == FALL_COOLDOWN_SECONDS + 1

\* The world after n more falls, the first at time t: the camera shows the
\* person standing, then lying low in the frame, FallSpacing apart.
RECURSIVE FallTimes(_, _, _, _, _)
FallTimes(a, cfg, w, t, n) ==
    IF n = 0 \/ w.loop.last.n < 0
    THEN w
    ELSE LET up == [w EXCEPT !.receiver =
                        OnMessage(@, Person(9, 20, 90, 3, 2), t)]
             w1 == IterateTimes(a, cfg, up, t, 1)
             down == [w1 EXCEPT !.receiver =
                        OnMessage(@, Person(9, 5, 10, 9, 8), t + 1)]
             w2 == IterateTimes(a, cfg, down, t + 1, 1)
         IN  FallTimes(a, cfg, w2, t + FallSpacing, n - 1)

\* The time the behaviours start at: after the falls of the longest history.
HistoryStart == StartTime + FallSpacing * (MaxEvents + 1)

\* The loop after the calibration frames and a history of no fall, of
\* MaxEvents - 1 falls or of MaxEvents falls; no sink is enabled.
InitHistory ==
    /\ config = LoopConfig
    /\ now = HistoryStart
    /\ aws = AwsNone
    /\ pc = "loop"
    /\ camera = LocalCameraInit
    /\ iot = IotInit
    /\ threads = ThreadsInit
    /\ pi = PiInit
    /\ sinks = SinksIdle
    /\ query = QueryInit
    /\ process = "main"
    /\ clip_call = [op |-> "init", ret |-> None, wrote |-> FALSE]
    /\ \E n \in {0, MaxEvents - 1, MaxEvents} :
          LET fresh == FreshWorld(AwsNone, "disabled (using AWS IoT Core)",
                                  OnMessage(ReceiverInit,
                                            Person(9, 20, 90, 3, 2),
                                            StartTime))
              calibrated == IterateTimes(AwsNone, LoopConfig, fresh,
                                         StartTime, calibration_needed)
              w == StartOfCount(FallTimes(AwsNone, LoopConfig, calibrated,
                                          StartTime + 1, n))
          IN  /\ det = w.det
              /\ det_call = w.det_call
              /\ clip = w.clip
              /\ receiver = w.receiver
              /\ loop = w.loop

\* The times an iteration begun after time t may read.
HistoryReads(t) ==
    {r \in (t..(HistoryStart + LoopSpan)) \X (t..(HistoryStart + LoopSpan)) :
        r[1] - t \in {0, 1, fall_cooldown} /\ r[2] - r[1] \in {0, 1}}

\* A client asks /api/events: get_events() answers fall_events[:20].
AskEvents ==
    /\ query' =
          [answered |-> TRUE,
           events |-> SubSeq(loop.fall_events, 1,
                             Min(Len(loop.fall_events), QueryLimit))]
    /\ UNCHANGED <<process, sinks, pi, camera, iot, threads, config, now,
                   clipVars, detVars, loopVars>>

NextHistory ==
    \/ \E frame \in LoopFrames : Deliver(frame)
    \/ \E r \in HistoryReads(now) :
          RunIteration(r[1], r[2], [s3 |-> TRUE, mqtt |-> TRUE])
    \/ AskEvents

SpecHistory == InitHistory /\ [][NextHistory]_vars

\* ------------------------------------------------- the threads of run_camera_ec2.py

\* A thread takes its next step: it waits while the lock it asks for is held.
ThreadStep(th) ==
    LET st == ProgramOf(th)[threads.at[th]]
    IN  /\ st.op = "acquire" => threads.holder[st.obj] = "free"
        /\ \E loc \in st.next :
              /\ BranchTaken(threads, loc)
              /\ threads' = Run(threads, th, loc)
        /\ UNCHANGED <<process, query, sinks, pi, camera, iot, config, now,
                       clipVars, detVars, loopVars>>

\* The detection thread, a client of /video_feed, a client of /api/status or
\* a client of /api/events takes a step.
NextThreads == \E th \in Threads : ThreadStep(th)

SpecThreads == InitIdle /\ [][NextThreads]_vars

\* ------------------------------------------------- the start of run_camera_ec2.py

\* main() about to start the detection thread: system_status as the module
\* defines it, no frame source connected, nothing published.
InitStartup ==
    /\ config = LoopConfig
    /\ now = StartTime
    /\ aws \in {AwsAll, AwsNone}
    /\ pc = "created"
    /\ process = "main"
    /\ camera = LocalCameraInit
    /\ iot = IotInit
    /\ threads = ThreadsInit
    /\ pi = PiInit
    /\ sinks = SinksIdle
    /\ query = QueryInit
    /\ clip = ClipSaverInit(LoopConfig, 0, 0, 0)
    /\ clip_call = [op |-> "init", ret |-> None, wrote |-> FALSE]
    /\ det = FallDetectorInit(LoopConfig.FALL_CONFIDENCE_THRESHOLD)
    /\ det_call = NoDetCall
    /\ receiver = [ReceiverInit EXCEPT !.connected = FALSE]
    /\ loop = [LoopInit("disconnected", AwsNone) EXCEPT
                 !.system_status.camera = "initializing",
                 !.system_status.detection = "initializing"]

\* main() starts the detection thread, a daemon, and sleeps.
MainStartsThread ==
    /\ process = "main"
    /\ process' = "sleeping"
    /\ pc' = "started"
    /\ UNCHANGED <<camera, iot, threads, pi, sinks, query, config, now,
                   clipVars, detVars, receiver, aws, loop>>

\* DetectStart with a failed camera.connect() ending the process.
DetectStartExiting(opens, mqtt) ==
    /\ pc = "started"
    /\ IF opens
       THEN /\ Becomes(FreshWorld(aws, mqtt, ReceiverInit))
            /\ pc' = "loop"
            /\ process' = process
       ELSE /\ loop' = [loop EXCEPT !.system_status.camera = "error",
                                    !.output_frame = "camera_error"]
            /\ pc' = "returned"
            /\ process' = "exited"
            /\ UNCHANGED <<det, det_call, clip, receiver>>
    /\ UNCHANGED <<camera, iot, threads, pi, sinks, query, config, now,
                   clip_call, aws>>

\* detect_and_publish up to its loop: camera.connect() succeeds or not, and
\* after a success the local publisher is connected, fails to connect or is
\* disabled.  After a failure the camera status is 'error', the output frame
\* is the "Camera Error" placeholder, and the function returns.
DetectStart(opens, mqtt) ==
    /\ pc = "started"
    /\ IF opens
       THEN /\ Becomes(FreshWorld(aws, mqtt, ReceiverInit))
            /\ pc' = "loop"
       ELSE /\ loop' = [loop EXCEPT !.system_status.camera = "error",
                                    !.output_frame = "camera_error"]
            /\ pc' = "returned"
            /\ UNCHANGED <<det, det_call, clip, receiver>>
    /\ UNCHANGED <<sideVars, config, now, clip_call, aws>>

\* main() calls app.run: the server starts serving, or app.run raises (the
\* port cannot be bound) and the process ends, its daemon thread with it.
AppRun(ok) ==
    /\ process = "sleeping"
    /\ process' = IF ok THEN "serving" ELSE "exited"
    /\ pc' = IF ok THEN pc ELSE "killed"
    /\ UNCHANGED <<camera, iot, threads, pi, sinks, query, config, now,
                   clipVars, detVars, receiver, aws, loop>>

NextStartup ==
    \/ MainStartsThread
    \/ \E opens \in BOOLEAN,
          mqtt \in {"connected", "disconnected", "disabled (using AWS IoT Core)"} :
          DetectStart(opens, mqtt)
    \/ \E ok \in BOOLEAN : AppRun(ok)
    \/ \E frame \in LoopFrames : Deliver(frame)
    \/ \E r \in LoopReads(now), net \in [s3 : BOOLEAN, mqtt : BOOLEAN] :
          RunIteration(r[1], r[2], net)

SpecStartup == InitStartup /\ [][NextStartup]_vars

\* ------------------------------------------------------------------ claims
\* Clip assembler (C4 - C8), under SpecClip.

\* The clip file written last.
LastFile == clip.files[Len(clip.files)]

\* The most recent k ingested frames, in ingest order.
MostRecent(cs, k) == FrameRun(cs.ingested - k + 1, cs.ingested)

\* Whether the elements of s are strictly increasing (ingest order).
InIngestOrder(s) == \A i \in 1..(Len(s) - 1) : s[i] < s[i + 1]

\* C4: in every reachable state the rolling buffer holds exactly the most
\* recent min(capacity, n) of the n frames passed to add_frame, in ingest
\* order.  (Fails: frames ingested while recording never reach the buffer.)
C4_RingHoldsMostRecent ==
    clip.frame_buffer = MostRecent(clip, Min(clip.maxlen, clip.ingested))

\* C5: when add_frame completes a recording, the clip written is the B frames
\* the rolling buffer held at the trigger, in ingest order, followed by the
\* P = fps x post_seconds frames ingested since, in ingest order: B + P frames.
C5_RoundTrip ==
    [][ (CallAddFrame /\ clip_call'.wrote) =>
          LET f == clip'.files[Len(clip'.files)].frames
              B == Len(clip.snapshot)
              P == clip.fps * clip.post_seconds
          IN  /\ Len(f) = B + P
              /\ SubSeq(f, 1, B) = clip.snapshot
              /\ SubSeq(f, B + 1, B + P) = MostRecent(clip', P)
              /\ InIngestOrder(f) ]_vars

\* C5 witness: add_frame has just completed a clip with at least two pre-roll
\* and two post-trigger frames.
C5_Witness ==
    /\ clip_call.op = "add_frame"
    /\ clip_call.wrote
    /\ Len(clip.snapshot) >= 2
    /\ clip.post_frames_needed >= 2
    /\ Len(LastFile.frames) = Len(clip.snapshot) + clip.post_frames_needed

\* C6: trigger_save during a recording returns None and changes nothing of the
\* assembler (recording sequence, counter, clip path, rolling buffer).
C6_TriggerIdempotent ==
    [][ (CallTriggerSave /\ clip.is_recording) =>
          /\ clip_call'.ret = None
          /\ clip' = clip ]_vars

\* C6 witness: a trigger was refused while a recording with post-trigger
\* frames was in progress.
C6_Witness ==
    /\ clip_call.op = "trigger_save"
    /\ clip_call.ret = None
    /\ clip.is_recording
    /\ clip.post_frames_count >= 1
    /\ clip.recording_frames # <<>>

\* C7: a recording is finalized by add_frame exactly when its post-trigger
\* counter reaches post_frames_needed, never before: then the recording is
\* written as one clip, the assembler stops recording, the recording sequence
\* is emptied and the counter is zero; before that the recording goes on.
C7_FinalizeAtPostRoll ==
    /\ [](clip.is_recording => clip.post_frames_count < clip.post_frames_needed)
    /\ [][ (CallAddFrame /\ clip.is_recording) =>
             IF clip.post_frames_count + 1 = clip.fps * clip.post_seconds
             THEN /\ clip'.files =
                       Append(clip.files,
                              [path |-> clip.current_clip_path,
                               frames |-> Append(clip.recording_frames,
                                                 clip.ingested + 1)])
                  /\ ~clip'.is_recording
                  /\ clip'.recording_frames = <<>>
                  /\ clip'.post_frames_count = 0
             ELSE /\ clip'.files = clip.files
                  /\ clip'.is_recording
                  /\ clip'.recording_frames =
                       Append(clip.recording_frames, clip.ingested + 1)
                  /\ clip'.post_frames_count = clip.post_frames_count + 1 ]_vars

\* C7 witness: add_frame has just finalized a recording that needed at least
\* two post-trigger frames.
C7_Witness ==
    /\ clip_call.op = "add_frame"
    /\ clip_call.wrote
    /\ clip.post_frames_needed >= 2
    /\ ~clip.is_recording
    /\ clip.recording_frames = <<>>

\* C8 as claimed: force_save during any recording writes the pre-roll snapshot
\* followed by the k frames captured so far and stops recording; force_save
\* when not recording changes nothing.  (Fails for a recording that holds no
\* frame at all: nothing is written and the assembler stays recording.)
C8_ForceSaveAsClaimed ==
    [][ CallForceSave =>
          IF clip.is_recording
          THEN /\ clip'.files =
                    Append(clip.files,
                           [path |-> clip.current_clip_path,
                            frames |-> clip.snapshot \o
                                       MostRecent(clip, clip.post_frames_count)])
               /\ ~clip'.is_recording
          ELSE clip' = clip ]_vars

\* C8 amended: force_save during a recording that holds at least one frame
\* (pre-roll or post-trigger) writes the pre-roll snapshot followed by exactly
\* the k frames captured so far, stops recording and clears the recording;
\* force_save when not recording, or when the recording holds no frame,
\* changes nothing.
C8_ForceSave ==
    [][ CallForceSave =>
          IF clip.is_recording /\ Len(clip.snapshot) + clip.post_frames_count >= 1
          THEN /\ clip'.files =
                    Append(clip.files,
                           [path |-> clip.current_clip_path,
                            frames |-> clip.snapshot \o
                                       MostRecent(clip, clip.post_frames_count)])
               /\ ~clip'.is_recording
               /\ clip'.recording_frames = <<>>
               /\ clip'.post_frames_count = 0
               /\ clip'.frame_buffer = clip.frame_buffer
          ELSE clip' = clip ]_vars

\* C8 witness: force_save has just written a partial recording: a pre-roll
\* and one post-trigger frame of the two or more that were needed.
C8_Witness ==
    /\ clip_call.op = "force_save"
    /\ clip_call.wrote
    /\ ~clip.is_recording
    /\ clip.post_frames_needed >= 2
    /\ Len(clip.snapshot) >= 1
    /\ Len(LastFile.frames) = Len(clip.snapshot) + 1

\* Fall classifier (C2, C3), under SpecDet.

\* A step that is one predict call.
PredictStep == det_call'.op = "predict" /\ det_call'.n = det_call.n + 1

\* Whether history h2 is history h with one entry, made between the times t
\* and t2, appended (the oldest entry dropped when h was full).
Appended(h, h2, t, t2) ==
    /\ Len(h2) >= 1
    /\ h2[Len(h2)].time \in t..t2
    /\ SubSeq(h2, 1, Len(h2) - 1) = (IF Len(h) = VelocityWindow THEN Tail(h) ELSE h)

\* C2: a frame that _detect_fall calls a fall, less than fall_cooldown seconds
\* after the last frame returned as a fall, is returned as (False, 0.0); its
\* metrics are still appended to the history, and the cooldown timer stays.
C2_CooldownSuppresses ==
    [][ (/\ PredictStep
         /\ det_call'.raw_fall
         /\ det_call.accepted_at > 0
         /\ now' - det_call.accepted_at < fall_cooldown) =>
          /\ ~det_call'.is_fall
          /\ det_call'.confidence = 0
          /\ Appended(det.position_history, det'.position_history, now, now')
          /\ det'.last_fall_time = det.last_fall_time ]_vars

\* C2 witness: a second fall frame has just been suppressed, within the
\* cooldown of an accepted one and later than it.
C2_Witness ==
    /\ det_call.op = "predict"
    /\ det_call.raw_fall
    /\ ~det_call.is_fall
    /\ det_call.accepted_at > 0
    /\ now > det_call.accepted_at
    /\ now - det_call.accepted_at < fall_cooldown

\* C3: predict on a frame without landmarks, or whose mean visibility is not
\* above the threshold, returns (False, 0.0) and leaves the whole detector as
\* it was: history, calibration counter, standing ratio and cooldown timer.
C3_UnqualifiedFrameIsNoOp ==
    [][ (PredictStep /\ ~det_call'.qualified) =>
          /\ det' = det
          /\ ~det_call'.is_fall
          /\ det_call'.confidence = 0 ]_vars

\* C3 witness: an ACTIVE detector with a full history, whose timer is set, has
\* just been shown such a frame.
C3_Witness ==
    /\ det_call.op = "predict"
    /\ ~det_call.qualified
    /\ det.calibration_frames = calibration_needed
    /\ det.history_len = position_history_maxlen
    /\ det.last_fall_time > 0

\* C3 witness in the CALIBRATING state, with a standing ratio already set.
C3_WitnessCalibrating ==
    /\ det_call.op = "predict"
    /\ ~det_call.qualified
    /\ det.calibration_frames \in 1..(calibration_needed - 1)
    /\ det.standing_height_ratio # NoRatio

\* Confidence of the classifier (C20), under SpecDet.

\* The indicators of _detect_fall and their weights, in tenths.
IndicatorWeight ==
    [ratio_collapse |-> 4, horizontal |-> 3, tilt |-> 3, velocity |-> 4,
     low |-> 2]

\* The indicators that apply to frame m, given the standing ratio of detector
\* d and the history h that ends with m's entry.
Applicable(d, h, m) ==
    {i \in DOMAIN IndicatorWeight :
        \/ /\ i = "ratio_collapse"
           /\ d.standing_height_ratio # NoRatio
           /\ 2 * m.aspect_ratio * RatioScale < d.standing_height_ratio
        \/ i = "horizontal" /\ m.aspect_ratio < 8
        \/ i = "tilt" /\ m.body_angle < 45
        \/ /\ i = "velocity"
           /\ h.history_len >= 5
           /\ h.position_history[5].time > h.position_history[1].time
           /\ 10 * (h.position_history[5].center_y - h.position_history[1].center_y)
                > 5 * 10 * (h.position_history[5].time - h.position_history[1].time)
        \/ i = "low" /\ m.head_y > 6}

\* The sum of the weights of a set of indicators.
RECURSIVE WeightOf(_)
WeightOf(is) ==
    IF is = {} THEN 0
    ELSE LET i == CHOOSE j \in is : TRUE
         IN  IndicatorWeight[i] + WeightOf(is \ {i})

\* C20: in the ACTIVE state, for a qualifying frame, the confidence of
\* _detect_fall is min(1.0, sum of the weights of all the indicators that
\* apply), and the frame is a fall, before the cooldown, exactly when that is
\* at least the confidence threshold; with no indicator it is (False, 0).
C20_ConfidenceIsCappedSum ==
    [][ (/\ PredictStep
         /\ det_call'.qualified
         /\ det.calibration_frames >= calibration_needed) =>
          LET total == WeightOf(Applicable(det, det', det_call'.frame))
              capped == IF total > 10 THEN 10 ELSE total
          IN  /\ det_call'.raw_confidence = capped
              /\ det_call'.raw_fall <=> (capped >= det.confidence_threshold)
              /\ total = 0 => (~det_call'.raw_fall /\ det_call'.raw_confidence = 0)
              /\ (~det_call'.is_fall \/ det_call'.confidence = capped) ]_vars

\* C20 witness: ratio collapse (0.4) and tilt (0.3), and nothing else, on a
\* frame of an ACTIVE detector: 0.7, at the threshold, a fall.
C20_Witness ==
    /\ det_call.op = "predict"
    /\ det_call.qualified
    /\ det.calibration_frames >= calibration_needed
    /\ det.standing_height_ratio = 20 * RatioScale
    /\ det_call.frame = Person(9, 9, 10, 3, 2)
    /\ det_call.raw_confidence = 7
    /\ det_call.raw_fall
    /\ det_call.is_fall

\* Orchestration loop (C1, C9, C10), under Spec.

\* C1: after every iteration that had a frame, the loop has created an event
\* (one insertion at the head of fall_events, one dispatch) exactly when the
\* predict call of that iteration returned is_fall = True.
C1_OneEventPerFall ==
    (pc = "loop" /\ loop.last.kind = "frame")
        => (det_call.is_fall <=> loop.last.event)

\* C9 as stated: the frame source is released only after the recording has
\* been force-finalized and the offline status published.
C9_ReleaseLast ==
    ~receiver.connected
        => \E i \in 1..Len(loop.shutdown) : loop.shutdown[i] = "offline"

\* C9, amended: once the loop has ended no frame is delivered or processed;
\* the finally block first releases the frame source, then calls force_save,
\* then publishes the offline status (when the publisher connected at startup
\* and is still connected) and disconnects the publisher, and only then ends.
C9_ShutdownOrder ==
    [][/\ pc # "loop"
          => /\ pc' # "loop"
             /\ receiver'.current_frame = receiver.current_frame
             /\ loop'.frames_processed = loop.frames_processed
             /\ loop'.fall_events = loop.fall_events
       /\ pc' # pc
          => \/ /\ pc = "loop" /\ pc' = "disconnect"
                /\ receiver.connected /\ ~receiver'.connected
                /\ clip' = clip
                /\ loop'.published = loop.published
             \/ /\ pc = "disconnect" /\ pc' = "force_save"
                /\ clip' = ForceSave(clip)
                /\ loop'.published = loop.published
             \/ /\ pc = "force_save" /\ pc' = "offline"
                /\ clip' = clip
                /\ loop'.published =
                       IF loop.system_status.mqtt = "connected"
                          /\ loop.publisher_connected
                       THEN Append(loop.published, "offline")
                       ELSE loop.published
                /\ ~loop'.publisher_connected
             \/ /\ pc = "offline" /\ pc' = "done"
                /\ clip' = clip
                /\ loop'.published = loop.published]_vars

\* The finally block has run to its end: the camera is released, a recording
\* in progress has been written short of its post-roll, the offline status is
\* the last message published.
C9_Witness ==
    /\ pc = "done"
    /\ ~receiver.connected
    /\ ~clip.is_recording
    /\ Len(clip.files) = 1
    /\ Len(clip.files[1].frames) < Len(clip.snapshot) + clip.post_frames_needed
    /\ Len(loop.published) >= 2
    /\ loop.published[Len(loop.published)] = "offline"
    /\ loop.published[Len(loop.published) - 1] = "fall_detected"

\* C10: when the last iteration called get_frame more than the liveness
\* window after the last frame arrived, is_receiving() is False and the
\* latest output frame is the placeholder.
C10_PlaceholderWhenSilent ==
    (/\ pc = "loop"
     /\ loop.last.n > 0
     /\ receiver.last_frame_time # NoTime
     /\ loop.last.at - receiver.last_frame_time > ReceiveWindow)
        => /\ ~IsReceiving(receiver, loop.last.at)
           /\ loop.output_frame = "no_signal"

\* Frame sources (C11), under SpecSource.

\* Whether a frame arrived at time last within the liveness window before t.
ArrivedWithinWindow(last, t) == last # NoTime /\ t - last < ReceiveWindow

\* C11: a frame source reports that it is receiving only if a frame arrived
\* from it within the liveness window: the local camera as well as the
\* receiver of the remote one.
C11_ReceivingMeansFrameArrived ==
    /\ LocalIsReceiving(camera)
          => ArrivedWithinWindow(camera.last_frame_time, now)
    /\ IsReceiving(receiver, now)
          => ArrivedWithinWindow(receiver.last_frame_time, now)

\* Dispatch of events (C12 to C15, C18, C19), under SpecDispatch.

\* The sinks enabled.
EnabledSinks ==
    {sink \in {"s3", "dynamodb", "sns"} : aws.available /\ aws[sink]}
    \cup (IF loop.system_status.mqtt = "connected" THEN {"mqtt"} ELSE {})

\* The sinks called in the last iteration.
CalledSinks ==
    {loop.last.dispatch.attempted[k] :
        k \in 1..Len(loop.last.dispatch.attempted)}

\* The event created by the last iteration, when it created one.
LastEvent == loop.fall_events[1]

\* Whether the event created by the last iteration reached the sink: the
\* upload returned a URL, the message went out, the thread was started.
Reached(sink) ==
    IF sink = "s3" THEN LastEvent.s3_url # None
    ELSE IF sink = "mqtt" THEN "mqtt" \notin loop.last.dispatch.failed
    ELSE loop.tasks[sink] + loop.delivered[sink] + loop.lost[sink] > 0

\* Whether the network operation of the sink was made in the last iteration
\* and failed.
FailedInDelivery(sink) ==
    /\ sink \in loop.last.dispatch.failed
    /\ sink = "s3" => "s3_upload" \in loop.last.dispatch.awaited

\* C12: when an iteration has created an event, every enabled sink has been
\* called whatever became of the calls to the others (the storage sink when
\* there is a clip path), the loop goes on, and a sink that is the only one
\* enabled has received the event unless its own delivery failed.
C12_DispatchIsolation ==
    (pc = "loop" /\ loop.last.event) =>
        /\ \A sink \in EnabledSinks :
              (sink = "s3" => LastEvent.clip_path # None)
                  => sink \in CalledSinks
        /\ \A sink \in EnabledSinks :
              (EnabledSinks = {sink} /\ sink \in CalledSinks)
                  => (Reached(sink) \/ FailedInDelivery(sink))

\* C13: when an iteration has called the storage upload for its event, the
\* recording started by the trigger has been finalized and the clip file of
\* the event exists.
C13_UploadAfterAssembly ==
    (pc = "loop" /\ loop.last.event /\ "s3" \in CalledSinks) =>
        /\ ~clip.is_recording
        /\ Exists(clip, LastEvent.clip_path)

\* What the k-th sink called in the last iteration was handed.
Handed(k) == loop.last.dispatch.payloads[k]

C15_LoopNeverWaits ==
    pc = "loop" => loop.last.dispatch.awaited = {}

\* What system_status reports of a sink.
StatusOf(sink) ==
    IF sink = "mqtt" THEN loop.system_status.mqtt
    ELSE IF sink = "s3" THEN loop.system_status.aws_s3
    ELSE IF sink = "dynamodb" THEN loop.system_status.aws_dynamodb
    ELSE loop.system_status.aws_sns

\* C18: after an iteration in which the delivery to a sink failed,
\* system_status no longer reports that sink as connected or enabled.
C18_FailureSurfacesInStatus ==
    (pc = "loop" /\ loop.last.event) =>
        \A sink \in loop.last.dispatch.failed :
            StatusOf(sink) \notin {"connected", "enabled"}

\* C19: no message of a fall event waits in a queue for a later delivery, and
\* no message is handed to a connection more than once.
C19_NoRetryNoQueue ==
    /\ iot.offline_queue = <<>>
    /\ \A id \in DOMAIN iot.attempts : iot.attempts[id] <= 1

\* Locks and shared state (C16, C17), under SpecThreads.

\* C16: the step a thread took last, when it was input or output, was taken
\* with no lock held.
C16_NoIoUnderLock ==
    threads.last.op = "io" => threads.last.held = {}

\* The shared mutable state of the module.
SharedState == {"output_frame", "fall_events", "system_status"}

\* C17: the step a thread took last, when it read or wrote a piece of the
\* shared state, was taken with the mutex of that piece held.
C17_SharedStateUnderMutex ==
    (threads.last.op \in {"read", "write"} /\ threads.last.obj \in SharedState)
        => MutexOf(threads.last.obj) \in threads.last.held

\* Calibration, reset and cooldown of the classifier (C22 to C25, C29), under
\* SpecDet.

\* The capped sum of the weights of a set of indicators.
Capped(is) == IF WeightOf(is) > 10 THEN 10 ELSE WeightOf(is)

\* C22: each qualifying frame shown to a CALIBRATING classifier is counted,
\* upright or not, and returned as (False, 0.0), so that the classifier is
\* ACTIVE after calibration_needed of them; a frame that is not upright leaves
\* an unset standing ratio unset; an ACTIVE classifier whose standing ratio is
\* unset stays ACTIVE and gives a frame the capped sum of the indicators other
\* than the ratio collapse.
C22_ActiveAfterCalibrationFrames ==
    [][ (PredictStep /\ det_call'.qualified) =>
          /\ det.calibration_frames < calibration_needed =>
                /\ det'.calibration_frames = det.calibration_frames + 1
                /\ ~det_call'.is_fall
                /\ det_call'.confidence = 0
                /\ det_call'.raw_confidence = 0
                /\ (/\ det.standing_height_ratio = NoRatio
                    /\ det_call'.frame.aspect_ratio <= 12)
                      => det'.standing_height_ratio = NoRatio
          /\ det.calibration_frames >= calibration_needed =>
                /\ det'.calibration_frames = det.calibration_frames
                /\ det.standing_height_ratio = NoRatio =>
                      /\ "ratio_collapse"
                            \notin Applicable(det, det', det_call'.frame)
                      /\ det_call'.raw_confidence =
                            Capped(Applicable(det, det', det_call'.frame)
                                     \ {"ratio_collapse"}) ]_vars

\* C22 witness: a classifier that saw no upright frame during its calibration
\* is ACTIVE with the standing ratio unset, and has just given a frame of a
\* person lying low 0.8: horizontal, tilt and low position.
C22_Witness ==
    /\ det_call.op = "predict"
    /\ det_call.n >= 2
    /\ det.calibration_frames = calibration_needed
    /\ det.standing_height_ratio = NoRatio
    /\ det_call.frame = Person(9, 5, 10, 9, 8)
    /\ det_call.raw_confidence = 8
    /\ det_call.is_fall

\* C23: a predict call on a classifier that has counted its calibration
\* frames leaves the standing ratio as it is; a step that changes the ratio of
\* such a classifier is a reset.
C23_RatioFixedAfterCalibration ==
    [][ det.calibration_frames >= calibration_needed =>
          /\ PredictStep =>
                det'.standing_height_ratio = det.standing_height_ratio
          /\ det'.standing_height_ratio # det.standing_height_ratio =>
                det_call'.op = "reset" ]_vars

\* C23 witness: an ACTIVE classifier calibrated on a person standing has just
\* classified an upright frame of another aspect ratio, and kept its ratio.
C23_Witness ==
    /\ det_call.op = "predict"
    /\ det_call.n >= 2
    /\ det.calibration_frames = calibration_needed
    /\ det.standing_height_ratio = 20 * RatioScale
    /\ det_call.frame = Person(9, 15, 90, 3, 2)

\* C24: reset empties the history and clears the standing ratio and the count
\* of calibration frames; a classifier whose count is below
\* calibration_needed treats a qualifying frame as a calibration frame: it
\* counts it and returns (False, 0.0) without running the detection.
C24_ResetReturnsToCalibrating ==
    [][ /\ (det_call'.op = "reset" /\ det_call'.n = det_call.n + 1) =>
              /\ det'.position_history = <<>>
              /\ det'.history_len = 0
              /\ det'.standing_height_ratio = NoRatio
              /\ det'.calibration_frames = 0
              /\ det'.calibration_frames < calibration_needed
        /\ (/\ PredictStep
            /\ det_call'.qualified
            /\ det_call.op = "reset") =>
              /\ det'.calibration_frames = 1
              /\ det'.history_len = 1
              /\ ~det_call'.is_fall
              /\ det_call'.confidence = 0
              /\ ~det_call'.raw_fall ]_vars

\* C24 witness: an ACTIVE classifier that had accepted a fall has just been
\* reset.
C24_Witness ==
    /\ det_call.op = "reset"
    /\ det.last_fall_time > 0
    /\ det.calibration_frames = 0
    /\ det.position_history = <<>>
    /\ det.standing_height_ratio = NoRatio

\* C24 witness: the frame of a person lying, shown right after a reset, has
\* been counted as the first calibration frame.
C24_WitnessRecalibrating ==
    /\ det_call.op = "predict"
    /\ det_call.n >= 3
    /\ det.calibration_frames = 1
    /\ det_call.frame = Person(9, 5, 10, 9, 8)

\* C25: a frame that _detect_fall calls a fall is returned as a fall when it
\* comes more than the configured FALL_COOLDOWN_SECONDS after the last frame
\* returned as a fall, and is not when it comes less than that after it.
C25_CooldownIsConfigured ==
    [][ (/\ PredictStep
         /\ det_call'.raw_fall
         /\ det_call.accepted_at > 0) =>
          /\ now' - det_call.accepted_at > config.FALL_COOLDOWN_SECONDS
                => det_call'.is_fall
          /\ now' - det_call.accepted_at < config.FALL_COOLDOWN_SECONDS
                => ~det_call'.is_fall ]_vars

\* C29 as stated: the position indicator (0.2) applies exactly when center_y
\* is above 0.6.
C29_LowCenterIndicator ==
    [][ (/\ PredictStep
         /\ det_call'.qualified
         /\ det.calibration_frames >= calibration_needed) =>
          LET others == WeightOf(Applicable(det, det', det_call'.frame)
                                   \ {"low"})
              low == IF det_call'.frame.center_y > 6 THEN 2 ELSE 0
          IN  det_call'.raw_confidence
                = (IF others + low > 10 THEN 10 ELSE others + low) ]_vars

\* C29, amended: the position indicator (0.2) applies exactly when head_y, the
\* height of the nose, is above 0.6, whatever center_y is.
C29_LowHeadIndicator ==
    [][ (/\ PredictStep
         /\ det_call'.qualified
         /\ det.calibration_frames >= calibration_needed) =>
          LET others == WeightOf(Applicable(det, det', det_call'.frame)
                                   \ {"low"})
              low == IF det_call'.frame.head_y > 6 THEN 2 ELSE 0
          IN  det_call'.raw_confidence
                = (IF others + low > 10 THEN 10 ELSE others + low) ]_vars

\* C29 witness: a frame whose center is in the upper part and whose head is
\* in the lower 40% has got the 0.2 of the position indicator on top of the
\* 0.3 of the horizontal body.
C29_Witness ==
    /\ det_call.op = "predict"
    /\ det.calibration_frames >= calibration_needed
    /\ det.standing_height_ratio = NoRatio
    /\ det_call.frame = Person(9, 5, 90, 3, 8)
    /\ det_call.raw_confidence = 5

\* The remote frame source in the loop (C28), under Spec.

\* A step that is one iteration of the loop.
IterationStep == pc = "loop" /\ loop'.last.n = loop.last.n + 1

\* C28: the receiver holds at most one frame, the one that arrived last; a
\* step that changes the frame get_frame returns is an arrival, which leaves
\* the loop as it is; an iteration classifies the frame get_frame returns,
\* passes it to the clip buffer and leaves it with the receiver, so that the
\* next iteration is given the same frame again.
C28_MostRecentFrame ==
    [][ /\ Len(receiver'.current_frame) <= 1
        /\ GetFrame(receiver') # GetFrame(receiver) =>
              /\ GetFrame(receiver') # None
              /\ GetFrame(receiver')[1] \in LoopFrames
              /\ receiver'.last_frame_time = now
              /\ loop' = loop /\ det' = det /\ clip' = clip
        /\ (IterationStep /\ GetFrame(receiver) # None) =>
              /\ GetFrame(receiver') = GetFrame(receiver)
              /\ loop'.last.kind = "frame"
              /\ det_call'.op = "predict"
              /\ det_call'.n = det_call.n + 1
              /\ det_call'.frame = GetFrame(receiver)[1]
              /\ clip'.ingested = clip.ingested + 1 ]_vars

\* C28 witness: the last two entries of the classifier's history were both
\* made after the last arrival of a frame: two iterations in a row have
\* classified the same frame, of a person lying.
C28_Witness ==
    /\ pc = "loop"
    /\ loop.last.n = 2
    /\ loop.last.kind = "frame"
    /\ GetFrame(receiver) = <<Person(9, 5, 10, 9, 8)>>
    /\ det_call.frame = Person(9, 5, 10, 9, 8)
    /\ Len(det.position_history) >= 2
    /\ det.position_history[Len(det.position_history) - 1].time
          > receiver.last_frame_time
    /\ det.position_history[Len(det.position_history) - 1].center_y = 9

\* A failing clip directory (C30), under SpecWrite.

\* Whether the next add_frame finalizes the recording.
FinalizeDue(cs) ==
    cs.is_recording /\ cs.post_frames_count + 1 >= cs.post_frames_needed

\* C30: when add_frame has finalized a recording and no clip file could be
\* written, the loop goes on, and the ClipSaver is not recording, its
\* recording frames and its counter cleared.
C30_WriteFailureContained ==
    [][ (/\ clip_call'.op = "add_frame"
         /\ clip'.ingested = clip.ingested + 1
         /\ FinalizeDue(clip)
         /\ ~clip_call'.wrote) =>
          /\ pc' = "loop"
          /\ ~clip'.is_recording
          /\ clip'.recording_frames = <<>>
          /\ clip'.post_frames_count = 0 ]_vars

\* The publisher of the Raspberry Pi (C27), under SpecPi.

\* C27: when AWS IoT Core is not usable, or its connection was not made, the
\* program has a local publisher, and when the broker is reachable that
\* publisher is connected, the status says so, and the online message and
\* every fall handled since have been published through it.
C27_FallbackPublishes ==
    (pi.phase = "loop" /\ ~(pi.iot_usable /\ pi.iot_ok)) =>
        /\ pi.publisher = "local"
        /\ pi.reachable =>
              /\ pi.local.connected
              /\ pi.mqtt = "connected"
              /\ pi.published =
                    <<<<"local", "online">>>>
                      \o [k \in 1..pi.falls |-> <<"local", "fall_detected">>]

\* The disabled sinks (C26), under SpecSinks.

\* Whether the sink is disabled: an AWS sink by its enabled flag, the local
\* publisher when it is not connected.
Disabled(x, sink) ==
    IF sink = "mqtt" THEN ~x.mqtt.connected ELSE ~x[sink].enabled

\* What a call on a disabled sink returns: None from upload_sync, False from
\* the others.
Refusal(call) == call.ret = (IF call.sink = "s3" THEN "None" ELSE "False")

\* C26: a delivery call on a disabled sink returns None or False, raises
\* nothing, sends no request over the network and leaves every sink as it
\* was.
C26_DisabledSinkIsNoOp ==
    [][(sinks'.calls = sinks.calls + 1 /\ Disabled(sinks, sinks'.last.sink)) =>
          /\ Refusal(sinks'.last)
          /\ ~sinks'.last.raised
          /\ sinks'.requests = sinks.requests
          /\ sinks' = [sinks EXCEPT !.calls = sinks'.calls,
                                    !.last = sinks'.last]]_vars

\* A disabled event log is called after another sink has delivered.
C26_Witness ==
    /\ sinks.last.sink = "dynamodb"
    /\ ~sinks.dynamodb.enabled
    /\ sinks.last.ret = "False"
    /\ sinks.requests > 0
    /\ sinks.s3.uploaded > 0

\* The event history (C21), under SpecHistory.

\* Whether the events are listed from the most recent to the oldest.
NewestFirst(events) ==
    \A i \in 1..(Len(events) - 1) :
        events[i].timestamp > events[i + 1].timestamp

\* Whether the answer is a prefix of the events.
PrefixOf(answer, events) ==
    /\ Len(answer) <= Len(events)
    /\ answer = SubSeq(events, 1, Len(answer))

\* C21: the event history lists the events from the most recent to the
\* oldest and never holds more than 50 of them; an iteration that creates an
\* event puts it at the head, ahead of the events held before, of which the
\* oldest alone is dropped when they were 50, and any other iteration leaves
\* the history alone; the answer of the history query is a prefix of the
\* history, of 50 records at most, and the query leaves the history as it
\* was.
C21_HistoryNewestFirstBounded ==
    /\ [](NewestFirst(loop.fall_events) /\ Len(loop.fall_events) <= MaxEvents)
    /\ [][IterationStep =>
            IF loop'.last.event
            THEN /\ Len(loop'.fall_events)
                       = Min(Len(loop.fall_events) + 1, MaxEvents)
                 /\ loop'.fall_events[1].timestamp = now'
                 /\ Tail(loop'.fall_events)
                       = SubSeq(loop.fall_events, 1,
                                Len(loop'.fall_events) - 1)
            ELSE loop'.fall_events = loop.fall_events]_vars
    /\ [][query' # query =>
            /\ loop' = loop
            /\ PrefixOf(query'.events, loop.fall_events)
            /\ Len(query'.events) <= MaxEvents]_vars

\* The history held 50 events when one more was created: the oldest is gone,
\* and the query has been answered since.
C21_Witness ==
    /\ Len(loop.fall_events) = MaxEvents
    /\ loop.fall_events[1].timestamp >= HistoryStart
    /\ loop.fall_events[MaxEvents].timestamp > StartTime + FallSpacing
    /\ query.answered
    /\ Len(query.events) = QueryLimit
    /\ query.events[1] = loop.fall_events[1]

\* The calibrating classifier (C32), under SpecFallen.

\* C32: a predict call on a classifier that has counted fewer than
\* calibration_needed frames returns (False, 0.0), whatever the frame shows,
\* and leaves the cooldown timer as it is.
C32_CalibratingNeverReports ==
    [][ (PredictStep /\ det.calibration_frames < calibration_needed) =>
          /\ ~det_call'.is_fall
          /\ det_call'.confidence = 0
          /\ det'.last_fall_time = det.last_fall_time ]_vars

\* C32 witness: a classifier reset after a fall has been shown, as its last
\* calibration frame and after the cooldown of that fall, a person lying low
\* in the frame.
C32_Witness ==
    /\ det_call.op = "predict"
    /\ det_call.n = 1
    /\ det.calibration_frames = calibration_needed
    /\ det_call.frame = Person(9, 5, 10, 9, 8)
    /\ ~det_call.is_fall
    /\ det.last_fall_time = StartTime
    /\ now - det.last_fall_time >= fall_cooldown

\* The cooldown timer (C33), under SpecFallen.

C35_ResetKeepsCooldown ==
    [][ /\ (det_call'.op = "reset" /\ det_call'.n = det_call.n + 1) =>
              /\ det'.last_fall_time = det.last_fall_time
              /\ det'.confidence_threshold = det.confidence_threshold
        /\ (/\ PredictStep
            /\ det_call'.raw_fall
            /\ now' - det.last_fall_time < fall_cooldown) =>
              /\ ~det_call'.is_fall
              /\ det_call'.confidence = 0
              /\ det'.last_fall_time = det.last_fall_time ]_vars

\* C35 witness: the classifier, reset after the fall accepted at StartTime
\* and calibrated again on frames that are not upright, has suppressed a
\* fall within the cooldown of that fall.
C35_Witness ==
    /\ det_call.op = "predict"
    /\ det_call.n = 2
    /\ det.calibration_frames = calibration_needed
    /\ det.standing_height_ratio = NoRatio
    /\ det_call.raw_fall
    /\ ~det_call.is_fall
    /\ det.last_fall_time = StartTime
    /\ now - StartTime < fall_cooldown

\* The standing ratio (C37), under SpecDet.

\* C37: a standing ratio that is set is above the upright threshold of 1.2;
\* it is set or changed only by a calibration frame whose aspect ratio is
\* above that threshold: to that aspect ratio when it was unset, to 0.9 of
\* itself plus 0.1 of that aspect ratio otherwise.
C37_StandingRatioAboveUpright ==
    /\ [](det.standing_height_ratio # NoRatio =>
             det.standing_height_ratio > UprightRatio * RatioScale)
    /\ [][ det'.standing_height_ratio
              \notin {det.standing_height_ratio, NoRatio} =>
             /\ PredictStep
             /\ det_call'.qualified
             /\ det.calibration_frames < calibration_needed
             /\ det_call'.frame.aspect_ratio > UprightRatio
             /\ IF det.standing_height_ratio = NoRatio
                THEN det'.standing_height_ratio
                        = det_call'.frame.aspect_ratio * RatioScale
                ELSE 10 * det'.standing_height_ratio
                        = 9 * det.standing_height_ratio
                          + det_call'.frame.aspect_ratio * RatioScale ]_vars

\* C37 witness: a ratio of 2.0 has been smoothed with an aspect ratio of 1.5,
\* to 1.95.
C37_Witness ==
    /\ det_call.op = "predict"
    /\ det_call.frame.aspect_ratio = 15
    /\ 10 * det.standing_height_ratio = (9 * 20 + 15) * RatioScale

\* The history of the ACTIVE classifier (C38), under SpecFallen.

\* Whether the last entry of history h lies lower than its first by more than
\* 0.5 of the frame height a second, over a time span that is not zero.
DropSeen(h) ==
    /\ h[VelocityWindow].time > h[1].time
    /\ h[VelocityWindow].center_y - h[1].center_y
         > VelocityThreshold * (h[VelocityWindow].time - h[1].time)

\* C38: when a classifier that has counted its calibration frames classifies
\* a qualifying frame, its history is full, the frame's entry being the last
\* one, and the velocity indicator applies exactly when the last five entries
\* span some time and show the drop: the confidence is the capped sum of
\* that indicator and of the others that apply.
C38_HistoryFullWhenActive ==
    [][ (/\ PredictStep
         /\ det_call'.qualified
         /\ det.calibration_frames >= calibration_needed) =>
          /\ det.history_len = position_history_maxlen
          /\ det'.history_len = position_history_maxlen
          /\ Len(det'.position_history) = VelocityWindow
          /\ det'.position_history[VelocityWindow].center_y
                = det_call'.frame.center_y
          /\ det'.position_history[VelocityWindow].time \in now..now'
          /\ det_call'.raw_confidence =
                Capped((Applicable(det, det', det_call'.frame) \ {"velocity"})
                       \cup (IF DropSeen(det'.position_history)
                             THEN {"velocity"} ELSE {})) ]_vars

\* C38 witness: a classifier reset and calibrated again has given a frame of
\* a person upright but low in the frame 0.6: the drop since the calibration
\* frames and the low position.
C38_Witness ==
    /\ det_call.op = "predict"
    /\ det_call.n = 2
    /\ det.standing_height_ratio = NoRatio
    /\ det.last_fall_time = StartTime
    /\ det_call.frame = Person(9, 20, 90, 9, 8)
    /\ det_call.raw_confidence = WeightVelocity + WeightLowHead

\* ---------------------------------------------------------------------------
\* The frames of a clip and the state of the ClipSaver (C34, C36), under
\* SpecClip.
\* ---------------------------------------------------------------------------

\* Whether s is a run of consecutive ingested frames.
Contiguous(s) == \A i \in 1..(Len(s) - 1) : s[i + 1] = s[i] + 1

\* C34: the frames of every clip written form one contiguous run of the
\* ingested frame sequence, and the clip that add_frame completes ends at the
\* frame of that call.  (Fails: add_frame feeds the rolling buffer only while
\* not recording, so the pre-roll of a clip triggered after an earlier
\* recording lacks the frames ingested during that recording.)
C34_ClipsContiguous ==
    /\ \A i \in 1..Len(clip.files) : Contiguous(clip.files[i].frames)
    /\ (clip_call.op = "add_frame" /\ clip_call.wrote) =>
          LastFile.frames[Len(LastFile.frames)] = clip.ingested

\* C36: when not recording, recording_frames is empty and post_frames_count
\* is 0; when recording, post_frames_count is below post_frames_needed and
\* recording_frames holds as many frames as the pre-roll snapshot plus
\* post_frames_count.
C36_ClipSaverInvariant ==
    IF clip.is_recording
    THEN /\ clip.post_frames_count < clip.post_frames_needed
         /\ Len(clip.recording_frames) =
               Len(clip.snapshot) + clip.post_frames_count
    ELSE /\ clip.recording_frames = <<>>
         /\ clip.post_frames_count = 0

\* C36 witness: a second recording, started on a non-empty pre-roll after a
\* first clip was written, has taken a post-trigger frame.
C36_Witness ==
    /\ Len(clip.files) >= 1
    /\ clip.is_recording
    /\ clip.snapshot # <<>>
    /\ clip.post_frames_count >= 1
    /\ clip_call.op = "add_frame"

\* ---------------------------------------------------------------------------
\* A frame source that cannot be connected (C31), under SpecStartup.
\* ---------------------------------------------------------------------------

\* C31 as claimed: a failure to connect any frame source ends the process, so
\* the process never serves the dashboard after one.  (Fails: only
\* detect_and_publish returns; main() goes on to run the server.)
C31_SourceFailureEndsProcess ==
    pc = "returned" => process # "serving"

\* C31: no outcome of the start of detect_and_publish ends the process.
\* When no frame source can be connected the function returns with the
\* camera status 'error', the detection status still 'initializing' and the
\* "Camera Error" placeholder as output frame, and the process goes on as it
\* would have; when the local publisher cannot be connected the loop starts
\* with the mqtt status 'disconnected'.  Only app.run failing ends the process.
C31_SourceFailureKeepsServing ==
    /\ [](pc = "returned" =>
            /\ loop.system_status.camera = "error"
            /\ loop.system_status.detection = "initializing"
            /\ loop.output_frame = "camera_error")
    /\ [][(pc = "started" /\ pc' \in {"returned", "loop"}) =>
            process' = process]_vars
    /\ [][(pc = "started" /\ pc' = "loop") =>
            /\ loop'.system_status.camera = "connected"
            /\ loop'.system_status.mqtt \in
                  {"connected", "disconnected", "disabled (using AWS IoT Core)"}
            /\ loop'.publisher_connected =
                  (loop'.system_status.mqtt = "connected")]_vars
    /\ [][(process # "exited" /\ process' = "exited") =>
            process = "sleeping"]_vars

\* C31 witness: the frame source could not be connected, and the process is
\* serving the dashboard with the camera status 'error'.
C31_Witness ==
    /\ pc = "returned"
    /\ process = "serving"
    /\ loop.system_status.camera = "error"

====
